---- MODULE Spec2Model ----
(***************************************************************************)
(* A model of the sync endpoints of src/server.js: the lookup-then-write   *)
(* upsert of every collection, single and batch, over a PostgreSQL store   *)
(* whose tables carry the keys declared in initDatabase.                   *)
(*                                                                         *)
(* Every `await pool.query(...)` is one atomic step of the database; the   *)
(* JavaScript between two awaits runs with the step that precedes it.      *)
(* The tables of the different collections never interact, so a behaviour  *)
(* exercises one collection, `kind`, chosen in the initial state.          *)
(***************************************************************************)
EXTENDS Integers, Sequences, FiniteSets, TLC

VARIABLES
    kind,       \* the collection the requests of this behaviour address
    table,      \* the rows of that collection's table
    seq,        \* the SERIAL sequences of the register table
    now,        \* the server clock, in milliseconds
    reqs        \* the requests of the behaviour: one handler invocation each

vars == <<kind, table, seq, now, reqs>>

----------------------------------------------------------------------------
(* Bounds of the model.                                                    *)

MaxTicks == 1           \* the clock advances this many times
TickMs == 1000          \* the milliseconds of one advance of the clock
StartNow == 1000        \* the clock at start
NumSlots == 2           \* requests of one behaviour, concurrent or not
MaxBatch == 3           \* records of a batch
MaxCalls == 2           \* calls made one after the other
IsoCalls == 3           \* calls made one after the other, two merchants
RegCalls == 2           \* register requests of one behaviour
FailCalls == 3          \* calls made one after the other, some failing
ProductCalls == 2       \* product syncs made one after the other
ProductPrice == 5       \* the price, discount and tax rate a client sends
Racers == 2             \* requests in flight at once for one stored row

MsPerSecond == 1000     \* Math.floor(Date.now() / 1000)

Slots == 1..NumSlots

----------------------------------------------------------------------------
(* JavaScript values.  A value is a record tagged by its type; an object   *)
(* holds exactly the properties that are present.                          *)

Undef == [t |-> "undefined"]
Null == [t |-> "null"]
NaN == [t |-> "NaN"]
Num(n) == [t |-> "number", n |-> n]
Str(s) == [t |-> "string", s |-> s]
Bool(b) == [t |-> "boolean", b |-> b]
Obj(f) == [t |-> "object", f |-> f]
Arr(a) == [t |-> "array", a |-> a]
\* a string whose text is the JSON encoding of v
JsonText(v) == [t |-> "string", json |-> v]

NoProps == [p \in {} |-> Undef]

IsJsonText(v) == v.t = "string" /\ "json" \in DOMAIN v

\* x.p : a TypeError on undefined and null, undefined on a missing property
Throws(x) == x.t \in {"undefined", "null"}
Get(x, p) ==
    IF x.t = "object" /\ p \in DOMAIN x.f THEN x.f[p] ELSE Undef

\* a || b
Truthy(v) ==
    CASE v.t \in {"undefined", "null", "NaN"} -> FALSE
      [] v.t = "number" -> v.n # 0
      [] v.t = "boolean" -> v.b
      [] v.t = "string" -> IsJsonText(v) \/ v.s # ""
      [] OTHER -> TRUE
Or(a, b) == IF Truthy(a) THEN a ELSE b

\* a ?? b
Coalesce(a, b) == IF a.t \in {"undefined", "null"} THEN b ELSE a

\* the decimal strings the model uses, and parseInt on them
Digits == [s \in {"0", "1", "2", "3"} |->
            CASE s = "0" -> 0 [] s = "1" -> 1 [] s = "2" -> 2 [] s = "3" -> 3]
ParseInt(v) ==
    CASE v.t = "number" -> v
      [] v.t = "string" /\ ~IsJsonText(v) /\ v.s \in DOMAIN Digits -> Num(Digits[v.s])
      [] OTHER -> NaN

\* String(v), as far as JSON.parse reads it: the JSON value the text denotes,
\* or NaN when the text is no JSON
ScalarAsJson(v) ==
    CASE v.t = "string" -> IF IsJsonText(v) THEN v.json
                           ELSE IF v.s \in DOMAIN Digits THEN Num(Digits[v.s]) ELSE NaN
      [] v.t \in {"number", "null", "boolean"} -> v
      [] OTHER -> NaN       \* "undefined", "[object Object]", "NaN"
TextAsJson(v) ==
    IF v.t = "array"
    THEN IF Len(v.a) = 1 /\ v.a[1].t \in {"number", "boolean", "string"}
         THEN ScalarAsJson(v.a[1]) ELSE NaN
    ELSE ScalarAsJson(v)

\* try { x = JSON.parse(data) } catch { x = data }
ParseOrPass(data) ==
    IF TextAsJson(data).t = "NaN" THEN data ELSE TextAsJson(data)

\* a decoder that takes arrays alone and reads anything else as no records
ParseArrayOnly(data) ==
    LET p == TextAsJson(data) IN
    IF p.t = "NaN"
    THEN IF data.t = "array" THEN data.a ELSE <<>>
    ELSE IF p.t = "array" THEN p.a ELSE <<>>

\* try { a = JSON.parse(data); if (!Array.isArray(a)) a = [a] }
\* catch { a = Array.isArray(data) ? data : [data] }
ParseArray(data) ==
    LET p == TextAsJson(data) IN
    IF p.t = "NaN"
    THEN IF data.t = "array" THEN data.a ELSE <<data>>
    ELSE IF p.t = "array" THEN p.a ELSE <<p>>

\* JSON.stringify(v): undefined stays undefined
JsonStringify(v) == IF v.t = "undefined" THEN Undef ELSE JsonText(v)

\* Math.floor(Date.now() / 1000)
FallbackId(t) == Num(t \div MsPerSecond)

----------------------------------------------------------------------------
(* The collections and their tables (initDatabase).                        *)

Kinds == {"merchants", "bills", "inventory", "supply", "production",
          "products", "bom"}
BatchKinds == {"inventory", "supply", "merchants", "products", "bom"}

\* the properties of a record that make its natural key, in the order of the
\* UNIQUE constraint's text columns; bills have none
KeyFields(k) ==
    CASE k \in {"merchants", "supply", "products", "bom"} -> <<"name">>
      [] k = "inventory" -> <<"merchantName", "date">>
      [] k = "production" -> <<"date">>
      [] OTHER -> <<>>

HasNaturalKey(k) == KeyFields(k) # <<>>
HasUpdatedAt(k) == k # "bills"

\* the columns declared NOT NULL besides id, mid and the key columns
NotNullCols(k) ==
    CASE k \in {"bills", "inventory", "production"} -> {"data"}
      [] k = "bom" -> {"date", "data"}
      [] OTHER -> {}

\* a query parameter: pg sends undefined as NULL
PgParam(v) == IF v.t = "undefined" THEN Null ELSE v

SqlError == [t |-> "error"]

\* what a JSONB column holds for a parameter: the value a JSON text denotes,
\* an object as it is (pg sends its JSON text), NULL for null; a text that
\* is no JSON is refused, and so is an array with elements, which pg sends
\* as an array literal {...}; the literal {} of the empty array reads as the
\* empty object
PgJson(v) ==
    CASE v.t \in {"undefined", "null"} -> Null
      [] v.t = "string" -> IF ScalarAsJson(v).t = "NaN" THEN SqlError ELSE ScalarAsJson(v)
      [] v.t = "array" -> IF v.a = <<>> THEN Obj(NoProps) ELSE SqlError
      [] OTHER -> v

IsSqlInt(v) == v.t = "number"
IsSqlText(v) == v.t = "string" /\ ~IsJsonText(v)

\* the parameters of the natural-key columns of record x
KeyParams(k, x) == [i \in 1..Len(KeyFields(k)) |-> PgParam(Get(x, KeyFields(k)[i]))]
KeyIsText(kp) == \A i \in 1..Len(kp) : IsSqlText(kp[i])
KeyText(kp) == [i \in 1..Len(kp) |-> kp[i].s]

\* a write that defaults the pricing fields together: all of them when the
\* record gives no mrp
WriteColsTogether(k, x, raw) ==
    IF k = "products"
    THEN IF Truthy(Get(x, "mrp"))
         THEN [mrp |-> Get(x, "mrp"),
               wsp |-> Or(Get(x, "wsp"), Num(0)),
               sp |-> Or(Get(x, "sp"), Num(0)),
               metrics |-> Or(Get(x, "metrics"), Str("unit")),
               discount |-> Or(Get(x, "discount"), Num(0)),
               gst |-> Or(Get(x, "gst"), Num(0)),
               date |-> PgParam(Get(x, "date"))]
         ELSE [mrp |-> Num(0), wsp |-> Num(0), sp |-> Num(0),
               metrics |-> Str("unit"), discount |-> Num(0), gst |-> Num(0),
               date |-> PgParam(Get(x, "date"))]
    ELSE NoProps

\* the columns a write sets besides id, mid and the key: x is the record,
\* raw the `data` of the request body
WriteCols(k, x, raw) ==
    CASE k = "bills" -> [data |-> PgJson(raw)]
      [] k = "inventory" -> [data |-> PgJson(JsonStringify(Get(x, "rows")))]
      [] k = "production" -> [data |-> PgJson(x)]
      [] k = "bom" -> [data |-> PgJson(Get(x, "data")), date |-> PgParam(Get(x, "date"))]
      [] k = "products" ->
            [mrp |-> Or(Get(x, "mrp"), Num(0)),
             wsp |-> Or(Get(x, "wsp"), Num(0)),
             sp |-> Or(Get(x, "sp"), Num(0)),
             metrics |-> Or(Get(x, "metrics"), Str("unit")),
             discount |-> Or(Get(x, "discount"), Num(0)),
             gst |-> Or(Get(x, "gst"), Num(0)),
             date |-> PgParam(Get(x, "date"))]
      [] OTHER -> NoProps

ColsAccepted(k, cols) ==
    /\ \A c \in DOMAIN cols : cols[c] # SqlError
    /\ \A c \in NotNullCols(k) : cols[c] # Null

----------------------------------------------------------------------------
(* The storage engine: one call per SQL statement of the handlers.  A call *)
(* yields [ok, table, row]: whether the statement succeeded, the table     *)
(* after it, and the row of RETURNING * (Undef when no row matched).       *)

Stamp(k, t) == IF HasUpdatedAt(k) THEN [updated_at |-> t] ELSE NoProps

\* SELECT id, mid FROM <table> WHERE <natural key> = $.. AND mid = $..
\* (bills: WHERE id = $1 AND mid = $2); a NULL parameter matches no row
DbSelect(k, tbl, id, mid, kp) ==
    IF ~IsSqlInt(mid) THEN {}
    ELSE IF HasNaturalKey(k)
    THEN IF KeyIsText(kp)
         THEN {r \in tbl : r.key = KeyText(kp) /\ r.mid = mid.n}
         ELSE {}
    ELSE IF IsSqlInt(id)
         THEN {r \in tbl : r.id = id.n /\ r.mid = mid.n}
         ELSE {}

\* a table that declares its primary key and omits the UNIQUE constraint
KeysFreeNoUnique(k, tbl, id, mid, key) ==
    \A r \in tbl : ~(r.id = id /\ r.mid = mid)

\* PRIMARY KEY (id, mid) and UNIQUE (<natural key>, mid)
KeysFree(k, tbl, id, mid, key) ==
    /\ \A r \in tbl : ~(r.id = id /\ r.mid = mid)
    /\ HasNaturalKey(k) => \A r \in tbl : ~(r.key = key /\ r.mid = mid)

\* an INSERT that reports the violation of a key and keeps the row
DbInsertKeeping(k, tbl, id, mid, kp, cols, t) ==
    IF /\ IsSqlInt(id) /\ IsSqlInt(mid)
       /\ KeyIsText(kp)
       /\ ColsAccepted(k, cols)
    THEN LET row == [id |-> id.n, mid |-> mid.n, key |-> KeyText(kp),
                     cols |-> cols, created_at |-> t] @@ Stamp(k, t)
         IN [ok |-> KeysFree(k, tbl, id.n, mid.n, KeyText(kp)),
             table |-> tbl \cup {row},
             row |-> IF KeysFree(k, tbl, id.n, mid.n, KeyText(kp))
                     THEN row ELSE Undef]
    ELSE [ok |-> FALSE, table |-> tbl, row |-> Undef]

\* INSERT INTO <table> (id, mid, <key>, <cols>, created_at) VALUES (...)
\* RETURNING *
DbInsert(k, tbl, id, mid, kp, cols, t) ==
    IF /\ IsSqlInt(id) /\ IsSqlInt(mid)
       /\ KeyIsText(kp)
       /\ ColsAccepted(k, cols)
       /\ KeysFree(k, tbl, id.n, mid.n, KeyText(kp))
    THEN LET row == [id |-> id.n, mid |-> mid.n, key |-> KeyText(kp),
                     cols |-> cols, created_at |-> t] @@ Stamp(k, t)
         IN [ok |-> TRUE, table |-> tbl \cup {row}, row |-> row]
    ELSE [ok |-> FALSE, table |-> tbl, row |-> Undef]

\* an UPDATE that keeps the stored columns the record does not give
UpdatedMerging(k, r, cols, t) ==
    [r EXCEPT !.cols = [c \in DOMAIN cols |->
                           IF cols[c] \in {Null, Num(0)} THEN r.cols[c] ELSE cols[c]]]

\* an UPDATE that sets created_at next to updated_at
UpdatedRecreating(k, r, cols, t) ==
    IF HasUpdatedAt(k)
    THEN [r EXCEPT !.cols = cols, !.updated_at = t, !.created_at = t]
    ELSE [r EXCEPT !.cols = cols, !.created_at = t]

\* an UPDATE that keeps the payload of a row that was updated before
UpdatedFirstWins(k, r, cols, t) ==
    IF HasUpdatedAt(k)
    THEN IF r.updated_at > r.created_at
         THEN [r EXCEPT !.updated_at = t]
         ELSE [r EXCEPT !.cols = cols, !.updated_at = t]
    ELSE [r EXCEPT !.cols = cols, !.created_at = t]

\* the row an UPDATE leaves: bills refresh created_at, the others updated_at
Updated(k, r, cols, t) ==
    IF HasUpdatedAt(k)
    THEN [r EXCEPT !.cols = cols, !.updated_at = t]
    ELSE [r EXCEPT !.cols = cols, !.created_at = t]

\* an UPDATE that addresses its rows by id alone
DbUpdateById(k, tbl, id, mid, cols, t) ==
    IF ~(IsSqlInt(mid) /\ ColsAccepted(k, cols))
    THEN [ok |-> FALSE, table |-> tbl, row |-> Undef]
    ELSE LET hit == {r \in tbl : r.id = id} IN
         IF hit = {}
         THEN [ok |-> TRUE, table |-> tbl, row |-> Undef]
         ELSE [ok |-> TRUE,
               table |-> (tbl \ hit) \cup {Updated(k, r, cols, t) : r \in hit},
               row |-> Updated(k, CHOOSE r \in hit : TRUE, cols, t)]

\* UPDATE <table> SET <cols>, updated_at = CURRENT_TIMESTAMP
\* WHERE id = $ AND mid = $ RETURNING *
DbUpdate(k, tbl, id, mid, cols, t) ==
    IF ~(IsSqlInt(mid) /\ ColsAccepted(k, cols))
    THEN [ok |-> FALSE, table |-> tbl, row |-> Undef]
    ELSE LET hit == {r \in tbl : r.id = id /\ r.mid = mid.n} IN
         IF hit = {}
         THEN [ok |-> TRUE, table |-> tbl, row |-> Undef]
         ELSE LET r == CHOOSE r \in hit : TRUE IN
              [ok |-> TRUE,
               table |-> (tbl \ {r}) \cup {Updated(k, r, cols, t)},
               row |-> Updated(k, r, cols, t)]

----------------------------------------------------------------------------
(* The handlers.  A slot holds one invocation of a POST /sync/... handler; *)
(* the slots are taken in order, so slot s is the s-th request to arrive.  *)
(*   pc       idle, select (the lookup is awaited), write (the UPDATE or   *)
(*            INSERT is awaited), done (res.json / res.status(500) sent)   *)
(*   route    "one" (syncOne) or "batch" (syncBatch)                       *)
(*   raw      req.body.data (req.body itself for POST /sync/supply)        *)
(*   items    the records to process, i the index of the current one       *)
(*   id, mid  the id and merchant id computed for the current record       *)
(*   found    the ids of the rows the lookup returned                      *)
(*   results, errors   the accumulators of a batch                         *)
(*   out      per record processed: "inserted", "updated", "failed" or     *)
(*            "threw" (history, for the properties)                        *)
(*   resp     the response sent                                            *)

IdleSlot ==
    [pc |-> "idle", route |-> "one", raw |-> Undef, items |-> <<>>, i |-> 0,
     id |-> Undef, mid |-> Undef, found |-> {}, results |-> <<>>,
     errors |-> <<>>, out |-> <<>>, resp |-> Undef]

\* res.status(500).json({ error: "Database error", ... })
RespError == [status |-> 500]
\* res.json(result.rows[0])
RespRow(row) == [status |-> 200, row |-> row]
\* res.json({ success, processed, failed, results, errors })
RespBatch(results, errors) ==
    [status |-> 200, success |-> Len(errors) = 0, processed |-> Len(results),
     failed |-> Len(errors), results |-> results, errors |-> errors]

\* the record of a syncOne: POST /sync/supply reads req.body, the others
\* decode req.body.data
RecordOf(k, payload) == IF k = "supply" THEN payload ELSE ParseOrPass(payload)

\* const id = x.id || Math.floor(Date.now() / 1000)
\* (bills: x.id || parseInt(x.billNumber) || ...; POST /sync/supply: the
\* time alone)
ItemId(k, route, x, t) ==
    CASE k = "bills" ->
            Or(Or(Get(x, "id"), ParseInt(Get(x, "billNumber"))), FallbackId(t))
      [] k = "supply" /\ route = "one" -> FallbackId(t)
      [] OTHER -> Or(Get(x, "id"), FallbackId(t))

\* a handler that defaults the merchant id with ||
ItemMidOr(x) == Or(Get(x, "mid"), Num(1))

\* const mid = x.mid ?? 1
ItemMid(x) == Coalesce(Get(x, "mid"), Num(1))

\* what the catch of a batch records about the record: its key properties
ErrLabel(k, x) == [i \in 1..Len(KeyFields(k)) |-> Get(x, KeyFields(k)[i])]

\* The synchronous code that starts record i at time t: past the last
\* record the batch answers with its summary; a record that is undefined or
\* null throws on its first property read, and so does the catch block of
\* the batch loop that reads the record's name, which leaves the outer
\* catch to answer 500.
BeginItem(k, r, i, t) ==
    IF i > Len(r.items)
    THEN [r EXCEPT !.pc = "done", !.i = i,
                   !.resp = RespBatch(r.results, r.errors)]
    ELSE IF Throws(r.items[i])
    THEN [r EXCEPT !.pc = "done", !.i = i, !.resp = RespError,
                   !.out = Append(@, "threw")]
    ELSE [r EXCEPT !.pc = "select", !.i = i,
                   !.id = ItemId(k, r.route, r.items[i], t),
                   !.mid = ItemMid(r.items[i]),
                   !.found = {}]

\* the request arrives: decode the payload and start the first record
Receive(s, route, payload) ==
    /\ reqs[s].pc = "idle"
    /\ \A q \in 1..(s - 1) : reqs[q].pc # "idle"
    /\ route = "batch" => kind \in BatchKinds
    /\ LET items == IF route = "batch" THEN ParseArray(payload)
                    ELSE <<RecordOf(kind, payload)>>
       IN reqs' = [reqs EXCEPT ![s] =
                     BeginItem(kind, [IdleSlot EXCEPT !.route = route,
                                                      !.raw = payload,
                                                      !.items = items],
                               1, now)]
    /\ UNCHANGED <<kind, table, seq, now>>

\* the lookup runs in the database
Select(s) ==
    LET r == reqs[s] IN
    /\ r.pc = "select"
    /\ reqs' = [reqs EXCEPT ![s] =
                 [r EXCEPT !.pc = "write",
                           !.found = {row.id : row \in
                               DbSelect(kind, table, r.id, r.mid,
                                        KeyParams(kind, r.items[r.i]))}]]
    /\ UNCHANGED <<kind, table, seq, now>>

\* a handler whose UPDATE addresses the row by the id computed for the record
UpsertByRecordId(k, tbl, r, t) ==
    LET x == r.items[r.i]
        cols == WriteCols(k, x, r.raw)
    IN IF r.found # {}
       THEN DbUpdate(k, tbl, r.id.n, r.mid, cols, t)
       ELSE DbInsert(k, tbl, r.id, r.mid, KeyParams(k, x), cols, t)

\* a handler that replaces the row found by a row under the id computed
\* for the record
UpsertReplacing(k, tbl, r, t) ==
    LET x == r.items[r.i]
        cols == WriteCols(k, x, r.raw)
        rest == {row \in tbl : ~(row.id \in r.found /\ row.mid = r.mid.n)}
    IN DbInsert(k, IF r.found # {} /\ IsSqlInt(r.mid) THEN rest ELSE tbl,
                r.id, r.mid, KeyParams(k, x), cols, t)

\* the statement the handler issues after the lookup
Upsert(k, tbl, r, t) ==
    LET x == r.items[r.i]
        cols == WriteCols(k, x, r.raw)
    IN IF r.found # {}
       THEN DbUpdate(k, tbl,
                     IF k = "bills" THEN r.id.n ELSE CHOOSE e \in r.found : TRUE,
                     r.mid, cols, t)
       ELSE DbInsert(k, tbl, r.id, r.mid, KeyParams(k, x), cols, t)

\* the slot after the statement: the response of a syncOne, or the next
\* record of a batch
AfterWrite(k, r, res, t) ==
    LET how == IF ~res.ok THEN "failed"
               ELSE IF r.found # {} THEN "updated" ELSE "inserted"
        r1 == [r EXCEPT !.out = Append(@, how)]
    IN IF r.route = "one"
       THEN [r1 EXCEPT !.pc = "done",
                       !.resp = IF res.ok THEN RespRow(res.row) ELSE RespError]
       ELSE IF res.ok
       THEN BeginItem(k, [r1 EXCEPT !.results = Append(@, res.row)], r.i + 1, t)
       ELSE BeginItem(k, [r1 EXCEPT !.errors =
                              Append(@, ErrLabel(k, r.items[r.i]))], r.i + 1, t)

\* the UPDATE or INSERT runs in the database and the handler goes on
Write(s) ==
    LET r == reqs[s]
        res == Upsert(kind, table, r, now)
    IN /\ r.pc = "write"
       /\ table' = res.table
       /\ reqs' = [reqs EXCEPT ![s] = AfterWrite(kind, r, res, now)]
       /\ UNCHANGED <<kind, seq, now>>

\* time passes
Tick ==
    /\ now + TickMs <= StartNow + MaxTicks * TickMs
    /\ now' = now + TickMs
    /\ UNCHANGED <<kind, table, seq, reqs>>

----------------------------------------------------------------------------
(* Request payloads.                                                       *)

\* an object with the properties of f that are not undefined
Compact(f) == Obj([p \in {q \in DOMAIN f : f[q] # Undef} |-> f[p]])

RowsX == Arr(<<Str("x")>>)
RowsY == Arr(<<Str("y")>>)

\* the key properties of a record of kind k for the key choice c: Undef
\* (absent), Null, Str("a") or Str("b").  Two inventory keys share the
\* merchant name and differ in the date; a bill carries a bill number.
KeyProps(k, c) ==
    CASE k \in {"merchants", "supply", "products", "bom"} -> [name |-> c]
      [] k = "inventory" ->
            [merchantName |-> IF c = Undef THEN Undef ELSE Str("m"), date |-> c]
      [] k = "production" -> [date |-> c]
      [] OTHER -> [billNumber |-> CASE c = Str("a") -> Str("1")
                                    [] c = Str("b") -> Str("2")
                                    [] OTHER -> c]

\* the payload properties of a record of kind k for the payload choice d:
\* Undef (absent), RowsX or RowsY
PayloadProps(k, d) ==
    CASE k = "inventory" -> [rows |-> d]
      [] k = "bom" -> [data |-> IF d = Undef THEN Undef ELSE Obj([items |-> d]),
                       date |-> IF d = Undef THEN Undef ELSE d.a[1]]
      [] k = "products" ->
            [mrp |-> CASE d = RowsX -> Num(1) [] d = RowsY -> Num(2) [] OTHER -> Undef]
      [] k \in {"production", "bills"} -> [items |-> d]
      [] OTHER -> NoProps

\* the record of kind k with the given id, mid, key and payload choices
Record(k, id, mid, c, d) ==
    Compact([id |-> id, mid |-> mid] @@ KeyProps(k, c) @@ PayloadProps(k, d))

\* the request body of a syncOne of record x: POST /sync/supply takes the
\* record as the body, the others take it structured or JSON-encoded in data
OneBodies(k, x) == IF k = "supply" THEN {x} ELSE {x, JsonText(x)}
\* the request body of a syncBatch of the records xs
BatchBodies(xs) == {Arr(xs), JsonText(Arr(xs))}

----------------------------------------------------------------------------
(* The general specification: concurrent syncOne and syncBatch requests.   *)

GenRecords(k) ==
    {Record(k, Undef, Undef, Str("a"), RowsX),
     Record(k, Num(7), Undef, Str("a"), RowsY),
     Record(k, Undef, Num(2), Str("a"), RowsY)}

GenBatches(k) ==
    {<<Record(k, Undef, Undef, Str("b"), RowsX), Record(k, Undef, Undef, Str("a"), RowsX)>>,
     <<Record(k, Undef, Undef, Str("a"), RowsX), Record(k, Undef, Undef, Str("a"), RowsY)>>}

Init ==
    /\ kind \in Kinds
    /\ table = {}
    /\ seq = [id |-> 1, merchantId |-> 1]
    /\ now = StartNow
    /\ reqs = [s \in Slots |-> IdleSlot]

ReceiveOne(s) ==
    \E x \in GenRecords(kind) : \E b \in OneBodies(kind, x) : Receive(s, "one", b)

ReceiveBatch(s) ==
    \E xs \in GenBatches(kind) : Receive(s, "batch", Arr(xs))

Next ==
    \/ \E s \in Slots : ReceiveOne(s)
    \/ \E s \in Slots : ReceiveBatch(s)
    \/ \E s \in Slots : Select(s)
    \/ \E s \in Slots : Write(s)
    \/ Tick

Spec == Init /\ [][Next]_vars

----------------------------------------------------------------------------
(* Two identical syncOne calls, one after the other, nothing in between.   *)

TwiceRecords(k) ==
    {Record(k, id, mid, c, d) :
        id \in {Undef, Num(0), Num(1)}, mid \in {Undef, Num(0)},
        c \in {Undef, Null, Str("a")}, d \in {Undef, RowsX}}

InitTwice ==
    /\ kind \in Kinds
    /\ table = {}
    /\ seq = [id |-> 1, merchantId |-> 1]
    /\ now = StartNow
    /\ reqs = [s \in {1, 2} |-> IdleSlot]

FirstCall ==
    \E x \in TwiceRecords(kind) : \E b \in OneBodies(kind, x) : Receive(1, "one", b)

SecondCall ==
    /\ reqs[1].pc = "done"
    /\ Receive(2, "one", reqs[1].raw)

NextTwice ==
    \/ FirstCall
    \/ SecondCall
    \/ \E s \in DOMAIN reqs : Select(s)
    \/ \E s \in DOMAIN reqs : Write(s)
    \/ Tick

SpecTwice == InitTwice /\ [][NextTwice]_vars

----------------------------------------------------------------------------
(* One syncBatch request on an empty table.                                *)

\* the elements of a batch: records with and without a client id, a record
\* whose key is null, a null element and an element that is no object
BatchElements(k) ==
    {Record(k, Undef, Undef, Str("a"), RowsX),
     Record(k, Undef, Undef, Str("a"), RowsY),
     Record(k, Undef, Undef, Str("b"), RowsX),
     Record(k, Num(5), Undef, Str("b"), RowsY),
     Record(k, Undef, Undef, Null, RowsX),
     Null,
     Num(5)}

SeqsUpTo(S, n) == UNION {[1..m -> S] : m \in 0..n}

InitBatch ==
    /\ kind \in BatchKinds
    /\ table = {}
    /\ seq = [id |-> 1, merchantId |-> 1]
    /\ now = StartNow
    /\ reqs = [s \in {1} |-> IdleSlot]

BatchCall ==
    \E xs \in SeqsUpTo(BatchElements(kind), MaxBatch) :
        \E b \in BatchBodies(xs) : Receive(1, "batch", b)

NextBatch ==
    \/ BatchCall
    \/ Select(1)
    \/ Write(1)
    \/ Tick

SpecBatch == InitBatch /\ [][NextBatch]_vars

----------------------------------------------------------------------------
(* Calls one after the other: each request arrives after the response of   *)
(* the one before it.                                                      *)

\* records of one natural key: every way to give or omit mid, and every
\* payload choice
SeqRecords(k) ==
    {Record(k, Undef, mid, Str("a"), RowsX) :
        mid \in {Undef, Null, Num(0), Num(2)}}
    \cup {Record(k, Undef, Undef, Str("a"), d) : d \in {Undef, RowsY}}

\* the bodies of the calls: every record structured, and two of them
\* JSON-encoded and as a batch of one
SeqEncoded(k) ==
    {Record(k, Undef, Num(0), Str("a"), RowsX),
     Record(k, Undef, Undef, Str("a"), RowsY)}

InitSeq ==
    /\ kind \in Kinds
    /\ table = {}
    /\ seq = [id |-> 1, merchantId |-> 1]
    /\ now = StartNow
    /\ reqs = [s \in 1..MaxCalls |-> IdleSlot]

Answered(s) == \A q \in 1..(s - 1) : reqs[q].pc = "done"

SeqOne(s) ==
    /\ Answered(s)
    /\ \/ \E x \in SeqRecords(kind) : Receive(s, "one", x)
       \/ \E x \in SeqEncoded(kind) : \E b \in OneBodies(kind, x) :
             Receive(s, "one", b)

SeqBatch(s) ==
    /\ Answered(s)
    /\ \E x \in SeqEncoded(kind) : Receive(s, "batch", Arr(<<x>>))

NextSeq ==
    \/ \E s \in DOMAIN reqs : SeqOne(s)
    \/ \E s \in DOMAIN reqs : SeqBatch(s)
    \/ \E s \in DOMAIN reqs : Select(s)
    \/ \E s \in DOMAIN reqs : Write(s)
    \/ Tick

SpecSeq == InitSeq /\ [][NextSeq]_vars

----------------------------------------------------------------------------
(* syncOne calls one after the other, of records of two natural keys for   *)
(* two merchants, none with a client id.                                   *)

IsoRecords(k) ==
    {Record(k, Undef, mid, c, RowsX) :
        mid \in {Num(1), Num(2)}, c \in {Str("a"), Str("b")}}

InitIso ==
    /\ kind \in Kinds
    /\ table = {}
    /\ seq = [id |-> 1, merchantId |-> 1]
    /\ now = StartNow
    /\ reqs = [s \in 1..IsoCalls |-> IdleSlot]

IsoOne(s) ==
    /\ Answered(s)
    /\ \E x \in IsoRecords(kind) : \E b \in OneBodies(kind, x) :
          Receive(s, "one", b)

NextIso ==
    \/ \E s \in DOMAIN reqs : IsoOne(s)
    \/ \E s \in DOMAIN reqs : Select(s)
    \/ \E s \in DOMAIN reqs : Write(s)
    \/ Tick

SpecIso == InitIso /\ [][NextIso]_vars

----------------------------------------------------------------------------
(* POST /sync/register.  The register table takes id and merchantId from   *)
(* sequences (seq holds the next value of each); a row holds hostName,     *)
(* registeredDate, editPassword and, in cols, the columns an update sets.  *)
(* A slot holds the decoded registerData in items[1].                      *)

\* registerData.location?.address
OptGet(x, p) == IF x.t \in {"undefined", "null"} THEN Undef ELSE Get(x, p)
\* v !== undefined ? v : d
Defined(v, d) == IF v = Undef THEN d ELSE v

\* the parameters $1..$18 of the UPDATE, which the INSERT sets as well
RegCols(x) ==
    [merchantName |-> PgParam(Get(x, "merchantName")),
     phoneNumber |-> PgParam(Get(x, "phoneNumber")),
     email |-> PgParam(Get(x, "email")),
     locationAddress |-> PgParam(OptGet(Get(x, "location"), "address")),
     locationCity |-> PgParam(OptGet(Get(x, "location"), "city")),
     locationState |-> PgParam(OptGet(Get(x, "location"), "state")),
     locationCountry |-> PgParam(OptGet(Get(x, "location"), "country")),
     locationZipCode |-> PgParam(OptGet(Get(x, "location"), "zipCode")),
     registered |-> PgParam(Get(x, "registered")),
     gstEnabled |-> Or(Get(x, "gstEnabled"), Bool(FALSE)),
     enableMrpPrice |-> Defined(Get(x, "enableMrpPrice"), Bool(TRUE)),
     enableWspPrice |-> Defined(Get(x, "enableWspPrice"), Bool(FALSE)),
     enableSpPrice |-> Defined(Get(x, "enableSpPrice"), Bool(FALSE)),
     enableBillMenu |-> Defined(Get(x, "enableBillMenu"), Bool(TRUE)),
     enableInventoryMenu |-> Defined(Get(x, "enableInventoryMenu"), Bool(TRUE)),
     enableBomMenu |-> Defined(Get(x, "enableBomMenu"), Bool(TRUE)),
     enableReportsMenu |-> Defined(Get(x, "enableReportsMenu"), Bool(TRUE)),
     enableRenewalMenu |-> Defined(Get(x, "enableRenewalMenu"), Bool(TRUE))]

\* 'paybean', the edit password of every new registration
DefaultEditPassword == "paybean"

\* SELECT id, merchantId, editPassword FROM register WHERE hostName = $1
RegSelect(tbl, host) ==
    IF IsSqlText(host) THEN {r \in tbl : r.hostName = host.s} ELSE {}

\* an INSERT into a register table without UNIQUE(hostName)
RegInsertNoUnique(tbl, sq, x, t) ==
    LET host == PgParam(Get(x, "hostName"))
        date == PgParam(Get(x, "registeredDate"))
        next == [id |-> sq.id + 1, merchantId |-> sq.merchantId + 1]
    IN IF IsSqlText(host) /\ IsSqlText(date)
       THEN LET row == [id |-> sq.id, merchantId |-> sq.merchantId,
                        hostName |-> host.s, registeredDate |-> date.s,
                        editPassword |-> DefaultEditPassword,
                        cols |-> RegCols(x),
                        created_at |-> t, updated_at |-> t]
            IN [ok |-> TRUE, table |-> tbl \cup {row}, row |-> row, seq |-> next]
       ELSE [ok |-> FALSE, table |-> tbl, row |-> Undef, seq |-> next]

\* an INSERT that takes the merchantId of the payload when it has one
RegInsertPayloadId(tbl, sq, x, t) ==
    LET host == PgParam(Get(x, "hostName"))
        date == PgParam(Get(x, "registeredDate"))
        next == [id |-> sq.id + 1, merchantId |-> sq.merchantId + 1]
    IN IF /\ IsSqlText(host) /\ IsSqlText(date)
          /\ \A r \in tbl : r.hostName # host.s
       THEN LET row == [id |-> sq.id,
                        merchantId |-> IF IsSqlInt(Get(x, "merchantId"))
                                       THEN Get(x, "merchantId").n
                                       ELSE sq.merchantId,
                        hostName |-> host.s, registeredDate |-> date.s,
                        editPassword |-> DefaultEditPassword,
                        cols |-> RegCols(x),
                        created_at |-> t, updated_at |-> t]
            IN [ok |-> TRUE, table |-> tbl \cup {row}, row |-> row, seq |-> next]
       ELSE [ok |-> FALSE, table |-> tbl, row |-> Undef, seq |-> next]

\* an INSERT that takes the edit password of the payload when it has one
RegInsertTakingPassword(tbl, sq, x, t) ==
    LET host == PgParam(Get(x, "hostName"))
        date == PgParam(Get(x, "registeredDate"))
        next == [id |-> sq.id + 1, merchantId |-> sq.merchantId + 1]
    IN IF /\ IsSqlText(host) /\ IsSqlText(date)
          /\ \A r \in tbl : r.hostName # host.s
       THEN LET row == [id |-> sq.id, merchantId |-> sq.merchantId,
                        hostName |-> host.s, registeredDate |-> date.s,
                        editPassword |-> IF IsSqlText(Get(x, "editPassword"))
                                         THEN Get(x, "editPassword").s
                                         ELSE DefaultEditPassword,
                        cols |-> RegCols(x),
                        created_at |-> t, updated_at |-> t]
            IN [ok |-> TRUE, table |-> tbl \cup {row}, row |-> row, seq |-> next]
       ELSE [ok |-> FALSE, table |-> tbl, row |-> Undef, seq |-> next]

\* INSERT INTO register (...) VALUES (...) RETURNING ...: id and merchantId
\* come from the sequences, which advance whether or not the row is kept;
\* hostName and registeredDate are NOT NULL, hostName is UNIQUE
RegInsert(tbl, sq, x, t) ==
    LET host == PgParam(Get(x, "hostName"))
        date == PgParam(Get(x, "registeredDate"))
        next == [id |-> sq.id + 1, merchantId |-> sq.merchantId + 1]
    IN IF /\ IsSqlText(host) /\ IsSqlText(date)
          /\ \A r \in tbl : r.hostName # host.s
       THEN LET row == [id |-> sq.id, merchantId |-> sq.merchantId,
                        hostName |-> host.s, registeredDate |-> date.s,
                        editPassword |-> DefaultEditPassword,
                        cols |-> RegCols(x),
                        created_at |-> t, updated_at |-> t]
            IN [ok |-> TRUE, table |-> tbl \cup {row}, row |-> row, seq |-> next]
       ELSE [ok |-> FALSE, table |-> tbl, row |-> Undef, seq |-> next]

\* an UPDATE that takes the edit password of the payload when it has one
RegUpdatedTakingPassword(r, x, t) ==
    [r EXCEPT !.cols = RegCols(x), !.updated_at = t,
              !.editPassword = IF IsSqlText(Get(x, "editPassword"))
                               THEN Get(x, "editPassword").s ELSE @]

\* the row the UPDATE leaves
RegUpdated(r, x, t) == [r EXCEPT !.cols = RegCols(x), !.updated_at = t]

\* UPDATE register SET ... WHERE id = $19 RETURNING ...
RegUpdate(tbl, sq, id, x, t) ==
    LET hit == {r \in tbl : r.id = id} IN
    IF hit = {}
    THEN [ok |-> TRUE, table |-> tbl, row |-> Undef, seq |-> sq]
    ELSE LET r == CHOOSE r \in hit : TRUE IN
         [ok |-> TRUE, table |-> (tbl \ {r}) \cup {RegUpdated(r, x, t)},
          row |-> RegUpdated(r, x, t), seq |-> sq]

\* a response that reports every registration as new
RespRegisterAlwaysNew(row, isNew) ==
    [status |-> 200, success |-> TRUE, merchantId |-> row.merchantId,
     editPassword |-> row.editPassword, isNew |-> TRUE, data |-> row]

\* res.json({ success: true, merchantId, editPassword, isNew, data })
RespRegister(row, isNew) ==
    [status |-> 200, success |-> TRUE, merchantId |-> row.merchantId,
     editPassword |-> row.editPassword, isNew |-> isNew, data |-> row]

\* the request arrives: decode data; reading hostName of no object throws
RegReceive(s, data) ==
    /\ kind = "register"
    /\ reqs[s].pc = "idle"
    /\ \A q \in 1..(s - 1) : reqs[q].pc # "idle"
    /\ LET x == ParseOrPass(data)
           r == [IdleSlot EXCEPT !.raw = data, !.items = <<x>>, !.i = 1]
       IN reqs' = [reqs EXCEPT ![s] =
                     IF Throws(x)
                     THEN [r EXCEPT !.pc = "done", !.resp = RespError,
                                    !.out = <<"threw">>]
                     ELSE [r EXCEPT !.pc = "select"]]
    /\ UNCHANGED <<kind, table, seq, now>>

\* the lookup by hostName runs in the database
RegLookup(s) ==
    LET r == reqs[s] IN
    /\ kind = "register"
    /\ r.pc = "select"
    /\ reqs' = [reqs EXCEPT ![s] =
                 [r EXCEPT !.pc = "write",
                           !.found = {row.id : row \in
                               RegSelect(table, PgParam(Get(r.items[1], "hostName")))}]]
    /\ UNCHANGED <<kind, table, seq, now>>

\* the UPDATE or INSERT runs in the database and the response is sent
RegWrite(s) ==
    LET r == reqs[s]
        res == IF r.found # {}
               THEN RegUpdate(table, seq, CHOOSE e \in r.found : TRUE,
                              r.items[1], now)
               ELSE RegInsert(table, seq, r.items[1], now)
        how == IF ~res.ok THEN "failed"
               ELSE IF r.found # {} THEN "updated" ELSE "inserted"
    IN /\ kind = "register"
       /\ r.pc = "write"
       /\ table' = res.table
       /\ seq' = res.seq
       /\ reqs' = [reqs EXCEPT ![s] =
                    [r EXCEPT !.pc = "done", !.out = <<how>>,
                              !.resp = IF res.ok
                                       THEN RespRegister(res.row, r.found = {})
                                       ELSE RespError]]
       /\ UNCHANGED <<kind, now>>

\* registrations of host h: a first one, and one that differs in every
\* field an update sets and carries an id, a merchantId and an editPassword
RegFirst(h) ==
    Obj([hostName |-> Str(h), registeredDate |-> Str("d"),
         merchantName |-> Str("m")])
RegOther(h) ==
    Obj([hostName |-> Str(h), registeredDate |-> Str("e"),
         merchantName |-> Str("n"), id |-> Num(9), merchantId |-> Num(9),
         editPassword |-> Str("secret"), gstEnabled |-> Bool(TRUE),
         enableMrpPrice |-> Bool(FALSE),
         location |-> Obj([city |-> Str("c")])])
\* a registration without hostName
RegNoHost == Obj([registeredDate |-> Str("d"), merchantName |-> Str("m")])

RegBodies ==
    LET xs == {RegFirst(h) : h \in {"h1", "h2"}}
              \cup {RegOther(h) : h \in {"h1", "h2"}} \cup {RegNoHost}
    IN xs \cup {JsonText(x) : x \in xs} \cup {Undef}

InitRegister ==
    /\ kind = "register"
    /\ table = {}
    /\ seq = [id |-> 1, merchantId |-> 1]
    /\ now = StartNow
    /\ reqs = [s \in 1..RegCalls |-> IdleSlot]

NextRegister ==
    \/ \E s \in DOMAIN reqs : \E b \in RegBodies : RegReceive(s, b)
    \/ \E s \in DOMAIN reqs : RegLookup(s)
    \/ \E s \in DOMAIN reqs : RegWrite(s)
    \/ Tick

SpecRegister == InitRegister /\ [][NextRegister]_vars

----------------------------------------------------------------------------
(* A syncOne call and then a syncBatch call whose body is one record, sent *)
(* as an object, as the JSON text of the object, or in an array.           *)

WrapRecords(k) ==
    {Record(k, id, Undef, c, RowsY) :
        id \in {Undef, Num(7)}, c \in {Null, Str("a"), Str("b")}}

WrapBodies(x) == {x, JsonText(x), Arr(<<x>>), JsonText(Arr(<<x>>))}

InitWrap ==
    /\ kind \in BatchKinds
    /\ table = {}
    /\ seq = [id |-> 1, merchantId |-> 1]
    /\ now = StartNow
    /\ reqs = [s \in {1, 2} |-> IdleSlot]

WrapFirst ==
    Receive(1, "one", Record(kind, Undef, Undef, Str("a"), RowsX))

WrapBatch ==
    /\ reqs[1].pc = "done"
    /\ \E x \in WrapRecords(kind) : \E b \in WrapBodies(x) :
          Receive(2, "batch", b)

NextWrap ==
    \/ WrapFirst
    \/ WrapBatch
    \/ \E s \in DOMAIN reqs : Select(s)
    \/ \E s \in DOMAIN reqs : Write(s)
    \/ Tick

SpecWrap == InitWrap /\ [][NextWrap]_vars

----------------------------------------------------------------------------
(* syncOne calls one after the other, some of which fail: bodies without  *)
(* data, records without a key, records whose id is taken, and statements *)
(* that the storage rejects.                                               *)

FailRecords(k) ==
    {Record(k, Undef, Undef, Str("a"), RowsX),
     Record(k, Undef, Undef, Str("b"), RowsX),
     Record(k, Undef, Undef, Null, RowsX)}

InitFail ==
    /\ kind \in Kinds
    /\ table = {}
    /\ seq = [id |-> 1, merchantId |-> 1]
    /\ now = StartNow
    /\ reqs = [s \in 1..FailCalls |-> IdleSlot]

\* a call with a record, or with a body that has no data
FailOne(s) ==
    /\ Answered(s)
    /\ \/ \E x \in FailRecords(kind) : Receive(s, "one", x)
       \/ kind # "supply" /\ Receive(s, "one", Undef)

\* pool.query rejects (the storage is unreachable): the handler's catch
\* answers 500 and nothing is written
StorageError(s) ==
    /\ reqs[s].route = "one"
    /\ reqs[s].pc \in {"select", "write"}
    /\ reqs' = [reqs EXCEPT ![s] = [@ EXCEPT !.pc = "done",
                                             !.out = Append(@, "failed"),
                                             !.resp = RespError]]
    /\ UNCHANGED <<kind, table, seq, now>>

NextFail ==
    \/ \E s \in DOMAIN reqs : FailOne(s)
    \/ \E s \in DOMAIN reqs : Select(s)
    \/ \E s \in DOMAIN reqs : Write(s)
    \/ \E s \in DOMAIN reqs : StorageError(s)
    \/ Tick

SpecFail == InitFail /\ [][NextFail]_vars

----------------------------------------------------------------------------
(* GET /sync/register/:hostname next to the register syncs.  A slot of a   *)
(* GET has the route "get" and the hostname of the path in raw.            *)

\* a lookup that answers with any stored registration
GetByAnyHostname(tbl, h) ==
    IF tbl = {}
    THEN [status |-> 404, success |-> FALSE]
    ELSE [status |-> 200, success |-> TRUE, data |-> CHOOSE r \in tbl : TRUE]

\* SELECT * FROM register WHERE hostName = $1, and the answer: 404 when no
\* row matches, the row otherwise
GetByHostname(tbl, h) ==
    LET rows == RegSelect(tbl, Str(h)) IN
    IF rows = {}
    THEN [status |-> 404, success |-> FALSE]
    ELSE [status |-> 200, success |-> TRUE, data |-> CHOOSE r \in rows : TRUE]

\* the hostnames asked for
Hostnames == {"h1", "h2"}

\* the request arrives, the query runs and the answer is sent
RegGet(s, h) ==
    /\ kind = "register"
    /\ reqs[s].pc = "idle"
    /\ \A q \in 1..(s - 1) : reqs[q].pc # "idle"
    /\ reqs' = [reqs EXCEPT ![s] =
                 [IdleSlot EXCEPT !.pc = "done", !.route = "get",
                                  !.raw = Str(h),
                                  !.resp = GetByHostname(table, h)]]
    /\ UNCHANGED <<kind, table, seq, now>>

NextRegisterGet ==
    \/ \E s \in DOMAIN reqs : \E b \in RegBodies : RegReceive(s, b)
    \/ \E s \in DOMAIN reqs : RegLookup(s)
    \/ \E s \in DOMAIN reqs : RegWrite(s)
    \/ \E s \in DOMAIN reqs : \E h \in Hostnames : RegGet(s, h)
    \/ Tick

SpecRegisterGet == InitRegister /\ [][NextRegisterGet]_vars

----------------------------------------------------------------------------
(* Product syncs one after the other, single and batch, of one product     *)
(* name: records that give any subset of the pricing fields, and records   *)
(* that give a field with the value 0, null or "".                         *)

PricingFields == {"mrp", "wsp", "sp", "metrics", "discount", "gst"}

\* the value a client sends for pricing field p
Priced(p) == IF p = "metrics" THEN Str("kg") ELSE Num(ProductPrice)

\* a product that gives the pricing fields of P and nothing else
Product(P) == Obj([p \in P \cup {"name"} |->
                     IF p = "name" THEN Str("a") ELSE Priced(p)])

ProductRecords ==
    {Product(P) : P \in SUBSET PricingFields}
    \cup {Obj([name |-> Str("a"), mrp |-> Num(0), metrics |-> Str("kg")]),
          Obj([name |-> Str("a"), mrp |-> Null, gst |-> Num(ProductPrice)]),
          Obj([name |-> Str("a"), metrics |-> Str(""), sp |-> Num(ProductPrice)])}

InitProducts ==
    /\ kind = "products"
    /\ table = {}
    /\ seq = [id |-> 1, merchantId |-> 1]
    /\ now = StartNow
    /\ reqs = [s \in 1..ProductCalls |-> IdleSlot]

ProductOne(s) ==
    /\ Answered(s)
    /\ \E x \in ProductRecords : Receive(s, "one", x)

ProductBatch(s) ==
    /\ Answered(s)
    /\ \E x \in ProductRecords : Receive(s, "batch", Arr(<<x>>))

NextProducts ==
    \/ \E s \in DOMAIN reqs : ProductOne(s)
    \/ \E s \in DOMAIN reqs : ProductBatch(s)
    \/ \E s \in DOMAIN reqs : Select(s)
    \/ \E s \in DOMAIN reqs : Write(s)

SpecProducts == InitProducts /\ [][NextProducts]_vars

----------------------------------------------------------------------------
(* Calls one after the other whose records are sent structured or as JSON  *)
(* text.  POST /sync/supply has no data property to decode: a client sends *)
(* it the record as the body, or the JSON text in data as to the others.   *)

EncodedRecords(k) ==
    {Record(k, Undef, Undef, Str("a"), RowsX),
     Record(k, Num(7), Num(0), Str("a"), RowsY)}

\* the bodies of a syncOne of record x, structured and encoded
EncodedOneBodies(k, x) ==
    IF k = "supply" THEN {x, Obj([data |-> JsonText(x)])} ELSE {x, JsonText(x)}

InitEncoded ==
    /\ kind \in Kinds
    /\ table = {}
    /\ seq = [id |-> 1, merchantId |-> 1]
    /\ now = StartNow
    /\ reqs = [s \in 1..MaxCalls |-> IdleSlot]

EncodedOne(s) ==
    /\ Answered(s)
    /\ \E x \in EncodedRecords(kind) : \E b \in EncodedOneBodies(kind, x) :
          Receive(s, "one", b)

EncodedBatch(s) ==
    /\ Answered(s)
    /\ \E x \in EncodedRecords(kind) :
          \E b \in {Arr(<<x>>), JsonText(Arr(<<x>>)), JsonText(x)} :
             Receive(s, "batch", b)

NextEncoded ==
    \/ \E s \in DOMAIN reqs : EncodedOne(s)
    \/ \E s \in DOMAIN reqs : EncodedBatch(s)
    \/ \E s \in DOMAIN reqs : Select(s)
    \/ \E s \in DOMAIN reqs : Write(s)
    \/ Tick

SpecEncoded == InitEncoded /\ [][NextEncoded]_vars

----------------------------------------------------------------------------
(* The handlers of src/unnamed/part_000, the version of the server before  *)
(* products, register and bill of material.  Its tables and statements are *)
(* those of src/server.js; it differs in how a handler computes the        *)
(* merchant id of a record.                                                *)

Part000Kinds == {"merchants", "bills", "inventory", "supply", "production"}
Part000BatchKinds == {"inventory", "supply", "merchants"}

\* const merchantId = x.mid || 1
\* (POST /sync/supply: const { name, mid = 1 } = req.body)
Part000ItemMid(k, route, x) ==
    IF k = "supply" /\ route = "one"
    THEN Defined(Get(x, "mid"), Num(1))
    ELSE Or(Get(x, "mid"), Num(1))

\* the synchronous code that starts record i at time t
Part000BeginItem(k, r, i, t) ==
    IF i > Len(r.items)
    THEN [r EXCEPT !.pc = "done", !.i = i,
                   !.resp = RespBatch(r.results, r.errors)]
    ELSE IF Throws(r.items[i])
    THEN [r EXCEPT !.pc = "done", !.i = i, !.resp = RespError,
                   !.out = Append(@, "threw")]
    ELSE [r EXCEPT !.pc = "select", !.i = i,
                   !.id = ItemId(k, r.route, r.items[i], t),
                   !.mid = Part000ItemMid(k, r.route, r.items[i]),
                   !.found = {}]

\* the request arrives: decode the payload and start the first record
Part000Receive(s, route, payload) ==
    /\ reqs[s].pc = "idle"
    /\ Answered(s)
    /\ route = "batch" => kind \in Part000BatchKinds
    /\ LET items == IF route = "batch" THEN ParseArray(payload)
                    ELSE <<RecordOf(kind, payload)>>
       IN reqs' = [reqs EXCEPT ![s] =
                     Part000BeginItem(kind, [IdleSlot EXCEPT !.route = route,
                                                             !.raw = payload,
                                                             !.items = items],
                                      1, now)]
    /\ UNCHANGED <<kind, table, seq, now>>

\* the slot after the statement: the response of a syncOne, or the next
\* record of a batch
Part000AfterWrite(k, r, res, t) ==
    LET how == IF ~res.ok THEN "failed"
               ELSE IF r.found # {} THEN "updated" ELSE "inserted"
        r1 == [r EXCEPT !.out = Append(@, how)]
    IN IF r.route = "one"
       THEN [r1 EXCEPT !.pc = "done",
                       !.resp = IF res.ok THEN RespRow(res.row) ELSE RespError]
       ELSE IF res.ok
       THEN Part000BeginItem(k, [r1 EXCEPT !.results = Append(@, res.row)],
                             r.i + 1, t)
       ELSE Part000BeginItem(k, [r1 EXCEPT !.errors =
                                    Append(@, ErrLabel(k, r.items[r.i]))],
                             r.i + 1, t)

\* the UPDATE or INSERT runs in the database and the handler goes on
Part000Write(s) ==
    LET r == reqs[s]
        res == Upsert(kind, table, r, now)
    IN /\ r.pc = "write"
       /\ table' = res.table
       /\ reqs' = [reqs EXCEPT ![s] = Part000AfterWrite(kind, r, res, now)]
       /\ UNCHANGED <<kind, seq, now>>

InitPart000 ==
    /\ kind \in Part000Kinds
    /\ table = {}
    /\ seq = [id |-> 1, merchantId |-> 1]
    /\ now = StartNow
    /\ reqs = [s \in 1..MaxCalls |-> IdleSlot]

Part000One(s) ==
    \/ \E x \in SeqRecords(kind) : Part000Receive(s, "one", x)
    \/ \E x \in SeqEncoded(kind) : \E b \in OneBodies(kind, x) :
          Part000Receive(s, "one", b)

Part000Batch(s) ==
    \E x \in SeqEncoded(kind) : Part000Receive(s, "batch", Arr(<<x>>))

NextPart000 ==
    \/ \E s \in DOMAIN reqs : Part000One(s)
    \/ \E s \in DOMAIN reqs : Part000Batch(s)
    \/ \E s \in DOMAIN reqs : Select(s)
    \/ \E s \in DOMAIN reqs : Part000Write(s)
    \/ Tick

SpecPart000 == InitPart000 /\ [][NextPart000]_vars

----------------------------------------------------------------------------
(* The requests under the assumption that every query the handler awaits   *)
(* eventually returns or fails: a statement that is awaited is eventually  *)
(* run.                                                                    *)

SpecBatchLive == SpecBatch /\ WF_vars(Select(1)) /\ WF_vars(Write(1))

SpecRegisterLive ==
    SpecRegister /\ \A s \in 1..RegCalls : WF_vars(RegLookup(s)) /\ WF_vars(RegWrite(s))

----------------------------------------------------------------------------
(* Properties.                                                             *)

\* the current record of request s and the parameters of its statements
Item(s) == reqs[s].items[reqs[s].i]
RowsOfKey(kp, mid) ==
    {r \in table : KeyIsText(kp) /\ r.key = KeyText(kp) /\ r.mid = mid.n}

\* C1: in every reachable state no table holds two rows with the same
\* (id, mid), and no table with a natural key holds two rows with the same
\* (natural key, mid).
C1_KeysUnique ==
    \A r1, r2 \in table :
        /\ (r1.id = r2.id /\ r1.mid = r2.mid) => r1 = r2
        /\ HasNaturalKey(kind) =>
              ((r1.key = r2.key /\ r1.mid = r2.mid) => r1 = r2)

\* a request whose lookup found nothing has had its INSERT refused while a
\* row with its natural key and mid is stored
C1_Witness ==
    \E s \in DOMAIN reqs :
        /\ HasNaturalKey(kind)
        /\ reqs[s].pc = "done" /\ reqs[s].route = "one"
        /\ reqs[s].found = {} /\ reqs[s].out = <<"failed">>
        /\ RowsOfKey(KeyParams(kind, Item(s)), reqs[s].mid) # {}

\* C2: two identical syncOne calls in a row answer with the same (id, mid),
\* the second leaves the number of rows as the first left it, and its
\* updated_at is not before the first's.
C2_Idempotent ==
    [][/\ reqs'[2].pc = "done" =>
            /\ reqs'[1].resp.status = reqs'[2].resp.status
            /\ reqs'[2].resp.status = 200 =>
                  /\ reqs'[1].resp.row # Undef /\ reqs'[2].resp.row # Undef
                  /\ reqs'[1].resp.row.id = reqs'[2].resp.row.id
                  /\ reqs'[1].resp.row.mid = reqs'[2].resp.row.mid
                  /\ HasUpdatedAt(kind) =>
                        reqs'[2].resp.row.updated_at >= reqs'[1].resp.row.updated_at
       /\ (reqs[2].pc = "write" /\ reqs'[2].pc = "done") =>
            Cardinality(table') = Cardinality(table)
      ]_vars

\* the same, for the collections that look a record up by its natural key
C2_IdempotentByNaturalKey ==
    [][HasNaturalKey(kind) =>
       /\ reqs'[2].pc = "done" =>
            /\ reqs'[1].resp.status = reqs'[2].resp.status
            /\ reqs'[2].resp.status = 200 =>
                  /\ reqs'[1].resp.row # Undef /\ reqs'[2].resp.row # Undef
                  /\ reqs'[1].resp.row.id = reqs'[2].resp.row.id
                  /\ reqs'[1].resp.row.mid = reqs'[2].resp.row.mid
                  /\ reqs'[2].resp.row.updated_at >= reqs'[1].resp.row.updated_at
       /\ (reqs[2].pc = "write" /\ reqs'[2].pc = "done") =>
            Cardinality(table') = Cardinality(table)
      ]_vars

\* the outcomes of the records of a batch that count as failures
Failures(r) == {i \in 1..Len(r.out) : r.out[i] \in {"failed", "threw"}}
IsRecord(x) == x.t = "object"
\* the record can be written: its key and its NOT NULL columns are present
Writable(k, x, raw) ==
    /\ IsRecord(x)
    /\ KeyIsText(KeyParams(k, x))
    /\ ColsAccepted(k, WriteCols(k, x, raw))

\* C4: a batch answers with its summary whatever its elements are: every
\* element is processed, every failure is one entry of the failed list, and
\* the rows written for the other elements are kept.
C4_BatchIsolatesFailures ==
    \A s \in DOMAIN reqs :
        LET r == reqs[s] IN
        (r.route = "batch" /\ r.pc = "done") =>
            /\ r.resp.status = 200
            /\ Len(r.out) = Len(r.items)
            /\ r.resp.failed = Cardinality(Failures(r))
            /\ r.resp.processed = Len(r.items) - Cardinality(Failures(r))
            /\ \A i \in 1..Len(r.out) :
                  r.out[i] = "inserted" =>
                      RowsOfKey(KeyParams(kind, r.items[i]), ItemMid(r.items[i])) # {}

\* the same, for the batches none of whose elements is null
C4_IsolatesFailuresOfNonNull ==
    \A s \in DOMAIN reqs :
        LET r == reqs[s] IN
        (/\ r.route = "batch" /\ r.pc = "done"
         /\ \A i \in 1..Len(r.items) : ~Throws(r.items[i])) =>
            /\ r.resp.status = 200
            /\ Len(r.out) = Len(r.items)
            /\ r.resp.failed = Cardinality(Failures(r))
            /\ r.resp.processed = Len(r.items) - Cardinality(Failures(r))
            /\ \A i \in 1..Len(r.out) :
                  r.out[i] = "inserted" =>
                      RowsOfKey(KeyParams(kind, r.items[i]), ItemMid(r.items[i])) # {}

\* C5: in a batch of records sent to an empty table, every record that can
\* be written and whose (natural key, mid) no other record of the batch has
\* is persisted and counted among the processed ones, whatever happens to
\* the other records.
C5_DistinctKeysPersist ==
    LET r == reqs[1]
        alone(i) == \A j \in 1..Len(r.items) :
                        j # i => (KeyParams(kind, r.items[j]) # KeyParams(kind, r.items[i])
                                  \/ ItemMid(r.items[j]) # ItemMid(r.items[i]))
    IN (/\ r.route = "batch" /\ r.pc = "done"
        /\ \A i \in 1..Len(r.items) : IsRecord(r.items[i])) =>
           \A i \in 1..Len(r.items) :
               (Writable(kind, r.items[i], r.raw) /\ alone(i)) =>
                   /\ i <= Len(r.out) /\ r.out[i] = "inserted"
                   /\ RowsOfKey(KeyParams(kind, r.items[i]), ItemMid(r.items[i])) # {}

\* C6: of two records of a batch with the same (natural key, mid), the
\* first creates or updates the row, the next one updates that row, both
\* are among the results, and one row holds the payload of the last one.
C6_SameKeyInOrder ==
    LET r == reqs[1]
        same(i, j) == /\ KeyParams(kind, r.items[j]) = KeyParams(kind, r.items[i])
                      /\ ItemMid(r.items[j]) = ItemMid(r.items[i])
    IN (/\ r.route = "batch" /\ r.pc = "done"
        /\ \A i \in 1..Len(r.items) : IsRecord(r.items[i])) =>
           \A i, j \in 1..Len(r.items) :
               (/\ i < j /\ same(i, j)
                /\ Writable(kind, r.items[i], r.raw)
                /\ Writable(kind, r.items[j], r.raw)) =>
                   /\ j <= Len(r.out)
                   /\ r.out[i] \in {"inserted", "updated"}
                   /\ r.out[j] = "updated"
                   /\ Cardinality(RowsOfKey(KeyParams(kind, r.items[j]),
                                            ItemMid(r.items[j]))) = 1
                   /\ (\A l \in (j + 1)..Len(r.items) : ~same(j, l)) =>
                         \A row \in RowsOfKey(KeyParams(kind, r.items[j]),
                                              ItemMid(r.items[j])) :
                             row.cols = WriteCols(kind, r.items[j], r.raw)

\* the same, whenever the first of the two records did create or update
\* the row
C6_SecondUpdatesFirst ==
    LET r == reqs[1]
        same(i, j) == /\ KeyParams(kind, r.items[j]) = KeyParams(kind, r.items[i])
                      /\ ItemMid(r.items[j]) = ItemMid(r.items[i])
    IN (/\ r.route = "batch" /\ r.pc = "done"
        /\ \A i \in 1..Len(r.items) : IsRecord(r.items[i])) =>
           \A i, j \in 1..Len(r.items) :
               (/\ i < j /\ same(i, j) /\ j <= Len(r.out)
                /\ r.out[i] \in {"inserted", "updated"}
                /\ Writable(kind, r.items[j], r.raw)) =>
                   /\ r.out[j] = "updated"
                   /\ Cardinality(RowsOfKey(KeyParams(kind, r.items[j]),
                                            ItemMid(r.items[j]))) = 1
                   /\ (\A l \in (j + 1)..Len(r.items) : ~same(j, l)) =>
                         \A row \in RowsOfKey(KeyParams(kind, r.items[j]),
                                              ItemMid(r.items[j])) :
                             row.cols = WriteCols(kind, r.items[j], r.raw)

\* requests s and q are both past their lookups, which found nothing, both
\* before their INSERTs, for the same (natural key, mid); bills, which have
\* no natural key, for the same (id, mid)
Racing(s, q) ==
    /\ s # q
    /\ reqs[s].pc = "write" /\ reqs[s].found = {}
    /\ reqs[q].pc = "write" /\ reqs[q].found = {}
    /\ reqs[s].mid = reqs[q].mid
    /\ IF HasNaturalKey(kind)
       THEN /\ KeyParams(kind, Item(s)) = KeyParams(kind, Item(q))
            /\ KeyIsText(KeyParams(kind, Item(s)))
       ELSE reqs[s].id = reqs[q].id
\* the rows of tbl that request s looked up
Target(tbl, s) ==
    IF HasNaturalKey(kind)
    THEN {r \in tbl : /\ KeyIsText(KeyParams(kind, Item(s)))
                      /\ r.key = KeyText(KeyParams(kind, Item(s)))
                      /\ r.mid = reqs[s].mid.n}
    ELSE {r \in tbl : r.id = reqs[s].id.n /\ r.mid = reqs[s].mid.n}
Wrote(s) == reqs[s].pc = "write" /\ reqs'[s] # reqs[s]
Last(q) == q[Len(q)]
\* the failure of the current record has reached the caller
ReportedFailure(s) ==
    /\ Last(reqs'[s].out) = "failed"
    /\ IF reqs[s].route = "one"
       THEN reqs'[s].resp = RespError
       ELSE reqs'[s].errors = Append(reqs[s].errors, ErrLabel(kind, Item(s)))

\* C3: of two requests racing to insert the same (natural key, mid), the
\* one whose INSERT runs first succeeds and the other's INSERT fails and
\* reports the failure, which leaves one row for the key.
C3_RaceOneWinner ==
    [][\A s, q \in DOMAIN reqs :
         /\ (Racing(s, q) /\ Target(table, s) = {} /\ Wrote(s)) =>
               /\ Last(reqs'[s].out) = "inserted"
               /\ Cardinality(Target(table', s)) = 1
         /\ (reqs[s].pc = "write" /\ reqs[s].found = {} /\ Target(table, s) # {}
             /\ Wrote(s)) =>
               /\ ReportedFailure(s)
               /\ table' = table
      ]_vars

\* the part of C3 that the keys of the table decide: an INSERT for a key
\* that is stored by then fails and reports the failure, no row is added
C3_LoserReports ==
    [][\A s \in DOMAIN reqs :
         (reqs[s].pc = "write" /\ reqs[s].found = {} /\ Target(table, s) # {}
          /\ Wrote(s)) =>
               /\ ReportedFailure(s)
               /\ table' = table
      ]_vars

\* the rows of the key of request s's record that belong to other merchants
OtherMids(s) ==
    IF HasNaturalKey(kind)
    THEN {r \in table : /\ KeyIsText(KeyParams(kind, Item(s)))
                        /\ r.key = KeyText(KeyParams(kind, Item(s)))
                        /\ r.mid # reqs[s].mid.n}
    ELSE {r \in table : r.id = reqs[s].id.n /\ r.mid # reqs[s].mid.n}

\* C7: a syncOne of natural key K for merchant m2, when K is stored for
\* another merchant m1 and not for m2, takes the insert path and adds a row
\* for (K, m2), and leaves the row of (K, m1) as it was.
C7_MidIsolates ==
    [][\A s \in DOMAIN reqs :
         (reqs[s].route = "one" /\ Wrote(s)
          /\ Target(table, s) = {} /\ OtherMids(s) # {}) =>
               /\ reqs[s].found = {}
               /\ Last(reqs'[s].out) = "inserted"
               /\ Cardinality(Target(table', s)) = 1
               /\ OtherMids(s) \subseteq table'
      ]_vars

\* C7 where it holds: the same, when no row of the merchant holds the id
\* the handler computed for the record
C7_MidIsolatesFreeId ==
    [][\A s \in DOMAIN reqs :
         (reqs[s].route = "one" /\ Wrote(s)
          /\ Target(table, s) = {} /\ OtherMids(s) # {}
          /\ \A r \in table : ~(r.id = reqs[s].id.n /\ r.mid = reqs[s].mid.n)) =>
               /\ reqs[s].found = {}
               /\ Last(reqs'[s].out) = "inserted"
               /\ Cardinality(Target(table', s)) = 1
               /\ OtherMids(s) \subseteq table'
      ]_vars

\* the merchant id a record is filed under, read off the record: its mid
\* when it has one that is not null, 1 otherwise
ExpectedMid(x) ==
    IF x.t = "object" /\ "mid" \in DOMAIN x.f /\ x.f.mid # Null
    THEN x.f.mid
    ELSE Num(1)
\* the index into results of the i-th record of a batch
ResultIndex(r, i) ==
    Cardinality({j \in 1..i : r.out[j] \in {"inserted", "updated"}})

\* C8: the merchant id used for the lookup of a record and stored in its
\* row is the record's mid, and 1 when mid is absent or null; a mid of 0
\* stays 0.
C8_MidDefault ==
    \A s \in DOMAIN reqs :
       LET r == reqs[s] IN
       /\ r.pc \in {"select", "write"} => r.mid = ExpectedMid(Item(s))
       /\ (r.pc = "done" /\ r.route = "one"
           /\ r.out \in {<<"inserted">>, <<"updated">>}) =>
             /\ r.resp.row.mid = ExpectedMid(r.items[1]).n
             /\ \E row \in table : /\ row.id = r.resp.row.id
                                   /\ row.mid = r.resp.row.mid
       /\ r.route = "batch" =>
             \A i \in 1..Len(r.out) :
                r.out[i] \in {"inserted", "updated"} =>
                   LET res == r.results[ResultIndex(r, i)] IN
                   /\ res.mid = ExpectedMid(r.items[i]).n
                   /\ \E row \in table : row.id = res.id /\ row.mid = res.mid

\* a record with mid 0 is stored under merchant 0 and a record with mid
\* null under merchant 1
C8_Witness ==
    /\ \E s \in DOMAIN reqs :
          /\ reqs[s].pc = "done" /\ reqs[s].out = <<"inserted">>
          /\ Get(reqs[s].items[1], "mid") = Num(0)
          /\ \E r \in table : r.mid = 0
    /\ \E s \in DOMAIN reqs :
          /\ reqs[s].pc = "done" /\ reqs[s].out = <<"inserted">>
          /\ Get(reqs[s].items[1], "mid") = Null
          /\ \E r \in table : r.mid = 1

\* the payload columns an incoming record asks for, read off the record
Given(x, p, d) == IF p \in DOMAIN x.f THEN x.f[p] ELSE d
IncomingPayload(k, x) ==
    CASE k \in {"bills", "production"} -> [data |-> x]
      [] k = "inventory" -> [data |-> Given(x, "rows", Null)]
      [] k = "bom" -> [data |-> Given(x, "data", Null),
                       date |-> Given(x, "date", Null)]
      [] k = "products" ->
            [mrp |-> Given(x, "mrp", Num(0)),
             wsp |-> Given(x, "wsp", Num(0)),
             sp |-> Given(x, "sp", Num(0)),
             metrics |-> Given(x, "metrics", Str("unit")),
             discount |-> Given(x, "discount", Num(0)),
             gst |-> Given(x, "gst", Num(0)),
             date |-> Given(x, "date", Null)]
      [] OTHER -> NoProps
HasPayload(k) == k \in {"bills", "inventory", "production", "products", "bom"}
\* request s is about to update the row it found
Updating(s) == reqs[s].pc = "write" /\ reqs[s].found # {} /\ Wrote(s)

C10_RegistrationImmutable ==
    [][\A r \in table :
         /\ \E r2 \in table' : /\ r2.id = r.id
                               /\ r2.merchantId = r.merchantId
                               /\ r2.editPassword = r.editPassword
                               /\ r2.hostName = r.hostName
         /\ Cardinality({r2 \in table' : r2.hostName = r.hostName}) = 1
      ]_vars

\* a register sync whose payload carries another merchantId and another
\* editPassword has updated the stored row of its hostName
C10_Witness ==
    \E s \in DOMAIN reqs :
       /\ kind = "register"
       /\ reqs[s].pc = "done" /\ reqs[s].out = <<"updated">>
       /\ LET x == reqs[s].items[1] IN
          /\ Get(x, "merchantId") = Num(9)
          /\ Get(x, "editPassword") = Str("secret")
          /\ \E r \in table :
                /\ r.hostName = Get(x, "hostName").s
                /\ r.cols.merchantName = Str("n")
                /\ r.merchantId # 9
                /\ r.editPassword = DefaultEditPassword

\* GET /sync/<collection>: SELECT * FROM <table>, the rows of the answer
List(tbl) == {r : r \in tbl}

\* the syncOne calls answered so far
Answers == {s \in DOMAIN reqs : reqs[s].pc = "done" /\ reqs[s].route = "one"}
\* no call is under way and the records of the calls answered have pairwise
\* distinct (natural key, mid), none of the key fields null or absent
DistinctKeys ==
    /\ \A s \in DOMAIN reqs : reqs[s].pc \in {"idle", "done"}
    /\ \A s \in Answers : KeyIsText(KeyParams(kind, reqs[s].items[1]))
    /\ \A s, q \in Answers :
          s # q => \/ KeyParams(kind, reqs[s].items[1]) # KeyParams(kind, reqs[q].items[1])
                   \/ ItemMid(reqs[s].items[1]) # ItemMid(reqs[q].items[1])

\* C11: after N syncOne calls on an empty table whose records have N
\* pairwise distinct (natural key, mid), the list of the collection has
\* exactly N rows, one per key.
C11_RoundTrip ==
    (HasNaturalKey(kind) /\ DistinctKeys) =>
        /\ Cardinality(List(table)) = Cardinality(Answers)
        /\ \A s \in Answers :
              \E r \in List(table) :
                 /\ r.key = KeyText(KeyParams(kind, reqs[s].items[1]))
                 /\ r.mid = ItemMid(reqs[s].items[1]).n

\* C11 where it holds: the same, when the ids the handler computed for the
\* records of one merchant are pairwise distinct
C11_RoundTripDistinctIds ==
    (/\ HasNaturalKey(kind) /\ DistinctKeys
     /\ \A s, q \in Answers :
           (s # q /\ reqs[s].mid = reqs[q].mid) => reqs[s].id # reqs[q].id) =>
        /\ Cardinality(List(table)) = Cardinality(Answers)
        /\ \A s \in Answers :
              \E r \in List(table) :
                 /\ r.key = KeyText(KeyParams(kind, reqs[s].items[1]))
                 /\ r.mid = ItemMid(reqs[s].items[1]).n

\* the boolean feature flags of a registration
RegFlags ==
    {"registered", "gstEnabled", "enableMrpPrice", "enableWspPrice",
     "enableSpPrice", "enableBillMenu", "enableInventoryMenu", "enableBomMenu",
     "enableReportsMenu", "enableRenewalMenu"}
\* register sync s is about to update the row it found
RegUpdating(s) ==
    /\ kind = "register"
    /\ reqs[s].pc = "write" /\ reqs[s].found # {} /\ Wrote(s)
    /\ reqs'[s].out = <<"updated">>

\* C12: a register sync that updates a stored hostname leaves every feature
\* flag that its payload does not carry as it was stored.
C12_AbsentFlagKept ==
    [][\A s \in DOMAIN reqs :
         RegUpdating(s) =>
            \A old \in table : \A new \in table' :
               (old.id \in reqs[s].found /\ new.id = old.id) =>
                  \A f \in RegFlags :
                     Get(reqs[s].items[1], f) = Undef =>
                        new.cols[f] = old.cols[f]
      ]_vars

\* what does hold on such an update: every flag the payload carries is
\* stored as the payload gives it
C12_GivenFlagStored ==
    [][\A s \in DOMAIN reqs :
         RegUpdating(s) =>
            \A new \in table' :
               new.id \in reqs[s].found =>
                  \A f \in RegFlags :
                     Get(reqs[s].items[1], f) # Undef =>
                        new.cols[f] = Get(reqs[s].items[1], f)
      ]_vars

\* the fields of a batch summary agree with each other and with the batch
Consistent(r) ==
    /\ r.resp.success <=> (r.resp.failed = 0)
    /\ r.resp.processed = Len(r.resp.results)
    /\ r.resp.failed = Len(r.resp.errors)
    /\ r.resp.processed + r.resp.failed = Len(r.items)
    /\ r.items = <<>> =>
          /\ r.resp.success /\ r.resp.processed = 0 /\ r.resp.failed = 0
          /\ table = {}

\* C13: every batch request is answered with a summary in which success is
\* true exactly when failed = 0, processed and failed count the entries of
\* results and errors and add up to the number of records of the batch; the
\* empty batch gives success with no record processed, none failed and no
\* write.
C13_SummaryCounts ==
    \A s \in DOMAIN reqs :
        (reqs[s].route = "batch" /\ reqs[s].pc = "done") =>
            /\ reqs[s].resp.status = 200
            /\ Consistent(reqs[s])

\* C13 where it holds: every summary that is sent is consistent
C13_SummariesSentCount ==
    \A s \in DOMAIN reqs :
        (reqs[s].route = "batch" /\ reqs[s].pc = "done"
         /\ reqs[s].resp.status = 200) => Consistent(reqs[s])

\* the body of batch request r is a single object, structured or as JSON
SingleObject(r) ==
    /\ r.route = "batch"
    /\ \/ r.raw.t = "object"
       \/ IsJsonText(r.raw) /\ r.raw.json.t = "object"
Unwrapped(raw) == IF IsJsonText(raw) THEN raw.json ELSE raw
\* a slot without the body it came from, and the slot of the same request
\* had its body been the array of its one record
Norm(r) == [r EXCEPT !.raw = Undef]
Twin(r) == [r EXCEPT !.raw = Arr(<<Unwrapped(r.raw)>>)]

\* C14: a syncBatch whose body is a single object R goes through the states
\* of the syncBatch of [R]: it starts on the same list of records, each of
\* its statements leaves the table and the request as the statement of the
\* other would, and so it sends the same summary.
C14_SingleObjectWraps ==
    [][\A s \in DOMAIN reqs :
         (SingleObject(reqs'[s]) /\ reqs'[s] # reqs[s]) =>
            CASE reqs[s].pc = "idle" ->
                    Norm(reqs'[s]) =
                       Norm(BeginItem(kind,
                               [IdleSlot EXCEPT
                                   !.route = "batch",
                                   !.items = ParseArray(Arr(<<Unwrapped(reqs'[s].raw)>>))],
                               1, now))
              [] reqs[s].pc = "select" ->
                    LET t == Twin(reqs[s]) IN
                    /\ table' = table
                    /\ Norm(reqs'[s]) =
                          Norm([t EXCEPT !.pc = "write",
                                         !.found = {row.id : row \in
                                            DbSelect(kind, table, t.id, t.mid,
                                                     KeyParams(kind, t.items[t.i]))}])
              [] OTHER ->
                    LET t == Twin(reqs[s])
                        res == Upsert(kind, table, t, now)
                    IN /\ table' = res.table
                       /\ Norm(reqs'[s]) = Norm(AfterWrite(kind, t, res, now))
      ]_vars

\* a batch sent as a single object has updated the stored row of its key and
\* has answered with the summary of one record processed
C14_Witness ==
    /\ SingleObject(reqs[2])
    /\ reqs[2].pc = "done" /\ reqs[2].out = <<"updated">>
    /\ reqs[2].resp.status = 200 /\ reqs[2].resp.processed = 1
    /\ reqs[2].items = <<Unwrapped(reqs[2].raw)>>

\* the step answers syncOne s
AnswersOne(s) ==
    reqs[s].route = "one" /\ reqs[s].pc # "done" /\ reqs'[s].pc = "done"
\* the record of the answered syncOne s, and whether its row is stored
Stored(s) ==
    \E r \in table' :
       /\ r.id = reqs'[s].resp.row.id /\ r.mid = reqs'[s].resp.row.mid
       /\ r = reqs'[s].resp.row
       /\ r.cols = WriteCols(kind, reqs'[s].items[1], reqs'[s].raw)
       /\ HasNaturalKey(kind) =>
             r.key = KeyText(KeyParams(kind, reqs'[s].items[1]))

\* C15: a syncOne is answered either with the row it stored or with an
\* error; when it is answered with an error the rows of the table are those
\* from before the step and no other request is touched, and a record
\* without its required fields is always answered with an error.
C15_FailureLeavesStore ==
    [][\A s \in DOMAIN reqs :
         AnswersOne(s) =>
            /\ \/ reqs'[s].resp.status = 200 /\ Stored(s)
               \/ reqs'[s].resp = RespError /\ table' = table
            /\ ~Writable(kind, reqs'[s].items[1], reqs'[s].raw) =>
                  reqs'[s].resp = RespError
            /\ \A q \in DOMAIN reqs : q # s => reqs'[q] = reqs[q]
            /\ seq' = seq
      ]_vars

\* the INSERT of a call has failed on the primary key, which the row of the
\* call before holds, and the call after it has stored its record
C15_Witness ==
    /\ reqs[1].pc = "done" /\ reqs[1].out = <<"inserted">>
    /\ reqs[2].pc = "done" /\ reqs[2].out = <<"failed">>
    /\ reqs[2].resp = RespError
    /\ Writable(kind, reqs[2].items[1], reqs[2].raw)
    /\ reqs[2].found = {}
    /\ reqs[2].id = reqs[1].id /\ reqs[2].mid = reqs[1].mid
    /\ reqs[3].pc = "done" /\ reqs[3].out = <<"inserted">>
    /\ reqs[3].resp.status = 200
    /\ Cardinality(table) = 2

\* register sync s is about to run its INSERT, which stores a row
RegInserting(s) ==
    /\ kind = "register"
    /\ reqs[s].pc = "write" /\ reqs[s].found = {} /\ Wrote(s)
    /\ reqs'[s].out = <<"inserted">>

\* C16: the merchantId of a new registration row is the next value of the
\* server sequence, whatever the payload carries: it differs from the
\* merchantId of every other row and is greater than every merchantId
\* issued before, also after failed inserts.
C16_MerchantIdSequential ==
    [][/\ \A s \in DOMAIN reqs :
            RegInserting(s) =>
               \E new \in table' :
                  /\ table' = table \cup {new} /\ new \notin table
                  /\ new.merchantId = seq.merchantId
                  /\ reqs'[s].resp.merchantId = new.merchantId
                  /\ \A r \in table : r.merchantId < new.merchantId
                  /\ seq'.merchantId > new.merchantId
       /\ kind = "register" =>
            /\ seq'.merchantId >= seq.merchantId
            /\ \A r \in table' : r.merchantId < seq'.merchantId
      ]_vars

\* after an insert that failed, a registration whose payload carries the
\* merchantId 9 has been created with the merchantId 2
C16_Witness ==
    /\ kind = "register"
    /\ \E s \in DOMAIN reqs : reqs[s].pc = "done" /\ reqs[s].out = <<"failed">>
    /\ \E s \in DOMAIN reqs :
          /\ reqs[s].pc = "done" /\ reqs[s].out = <<"inserted">>
          /\ Get(reqs[s].items[1], "merchantId") = Num(9)
          /\ reqs[s].resp.merchantId = 2
          /\ \E r \in table : r.merchantId = 2

\* C17: the row in the response of a successful syncOne is the row as the
\* table holds it after the write, under the merchant id of the record;
\* after an update it is the row that was found, with the id that row had,
\* whatever id the record carries.
C17_ResponseIsStoredRow ==
    [][\A s \in DOMAIN reqs :
         (AnswersOne(s) /\ reqs'[s].resp.status = 200) =>
            /\ reqs'[s].resp.row \in table'
            /\ reqs'[s].resp.row.mid = ExpectedMid(reqs[s].items[1]).n
            /\ reqs[s].found # {} =>
                  /\ reqs'[s].resp.row.id \in reqs[s].found
                  /\ \E old \in table :
                        /\ old.id = reqs'[s].resp.row.id
                        /\ old.mid = reqs'[s].resp.row.mid
                        /\ old.key = reqs'[s].resp.row.key
                        /\ table' = (table \ {old}) \cup {reqs'[s].resp.row}
            /\ reqs[s].found = {} =>
                  /\ reqs'[s].resp.row \notin table
                  /\ reqs'[s].resp.row.id = reqs[s].id.n
      ]_vars

\* a syncOne whose record carries the id 7 has updated the row stored with
\* the id 1 and has answered with the id 1
C17_Witness ==
    \E s \in DOMAIN reqs :
       /\ reqs[s].pc = "done" /\ reqs[s].route = "one"
       /\ reqs[s].out = <<"updated">>
       /\ Get(reqs[s].items[1], "id") = Num(7)
       /\ reqs[s].resp.status = 200
       /\ reqs[s].resp.row.id = 1
       /\ reqs[s].resp.row \in table

\* every record of the answered batch r was persisted or is in its errors
AllRecordsSettled(r) ==
    /\ Len(r.out) = Len(r.items)
    /\ \A i \in 1..Len(r.items) : r.out[i] \in {"inserted", "updated", "failed"}
    /\ r.resp.status = 200
    /\ Len(r.resp.errors) = Cardinality({i \in 1..Len(r.out) : r.out[i] = "failed"})

\* C18: a batch request that has arrived is eventually answered, it is
\* answered once, and when it is answered each of its records has been
\* persisted or recorded as failed.
C18_AnsweredAfterAllRecords ==
    /\ (reqs[1].pc \in {"select", "write"}) ~> (reqs[1].pc = "done")
    /\ [][reqs[1].pc = "done" => reqs'[1] = reqs[1]]_vars
    /\ [](reqs[1].pc = "done" => AllRecordsSettled(reqs[1]))

\* C18 where it holds: the batch is eventually answered, and once
C18_BatchAnsweredOnce ==
    /\ (reqs[1].pc \in {"select", "write"}) ~> (reqs[1].pc = "done")
    /\ [][reqs[1].pc = "done" => reqs'[1] = reqs[1]]_vars

\* and so is every register sync
C18_RegisterAnsweredOnce ==
    /\ \A s \in 1..RegCalls :
          (reqs[s].pc \in {"select", "write"}) ~> (reqs[s].pc = "done")
    /\ [][\A s \in 1..RegCalls : reqs[s].pc = "done" => reqs'[s] = reqs[s]]_vars

\* a register sync of hostname h has been answered with success
Registered(h) ==
    \E q \in DOMAIN reqs :
       /\ reqs[q].route = "one" /\ reqs[q].pc = "done"
       /\ reqs[q].out \in {<<"inserted">>, <<"updated">>}
       /\ Get(reqs[q].items[1], "hostName") = Str(h)

\* C19: a GET of hostname h answers with the registration row of h when a
\* register sync of exactly h has succeeded before and with 404 otherwise,
\* and changes neither the table nor the sequences.
C19_GetByHostname ==
    [][\A s \in DOMAIN reqs :
         (reqs[s].pc = "idle" /\ reqs'[s].route = "get") =>
            LET h == reqs'[s].raw.s IN
            /\ Registered(h) =>
                  /\ reqs'[s].resp.status = 200
                  /\ reqs'[s].resp.data \in table
                  /\ reqs'[s].resp.data.hostName = h
            /\ ~Registered(h) => reqs'[s].resp.status = 404
            /\ table' = table /\ seq' = seq
      ]_vars

\* with the registration of h1 stored, a GET of h1 has answered with its
\* row
C19_Witness ==
    \E s \in DOMAIN reqs :
       /\ reqs[s].route = "get" /\ reqs[s].pc = "done"
       /\ reqs[s].raw = Str("h1")
       /\ reqs[s].resp.status = 200
       /\ reqs[s].resp.data.hostName = "h1"
       /\ Registered("h1")

\* with the registration of h1 stored and none of h2, a GET of h2 has
\* answered 404
C19_OtherHostNotFound ==
    \E s \in DOMAIN reqs :
       /\ reqs[s].route = "get" /\ reqs[s].pc = "done"
       /\ reqs[s].raw = Str("h2")
       /\ reqs[s].resp.status = 404
       /\ Registered("h1")

\* the row of the hostname of register sync s
HostRows(tbl, s) ==
    {r \in tbl : /\ IsSqlText(Get(reqs[s].items[1], "hostName"))
                 /\ r.hostName = Get(reqs[s].items[1], "hostName").s}

\* C20: no two registration rows share a hostName; the lookup of a register
\* sync finds the row of its hostName whenever one is stored, and the sync
\* then updates that row and adds none, whatever else its payload carries.
C20_KeyedByHostname ==
    /\ [](\A r1, r2 \in table :
             (kind = "register" /\ r1.hostName = r2.hostName) => r1 = r2)
    /\ [][\A s \in DOMAIN reqs :
            /\ (kind = "register" /\ reqs[s].pc = "select"
                /\ reqs'[s].pc = "write") =>
                  reqs'[s].found = {r.id : r \in HostRows(table, s)}
            /\ RegUpdating(s) =>
                  /\ reqs'[s].resp.isNew = FALSE
                  /\ Cardinality(table') = Cardinality(table)
                  /\ \E old \in HostRows(table, s) :
                        /\ reqs'[s].resp.data.id = old.id
                        /\ reqs'[s].resp.data.hostName = old.hostName
                        /\ table' = (table \ {old}) \cup {reqs'[s].resp.data}
       ]_vars

\* the registration of a hostname, created with one merchant name, has been
\* updated by a sync with another merchant name and a merchantId, and it is
\* still the only row
C20_Witness ==
    \E s \in DOMAIN reqs :
       /\ kind = "register"
       /\ reqs[s].pc = "done" /\ reqs[s].out = <<"updated">>
       /\ reqs[s].resp.isNew = FALSE
       /\ Get(reqs[s].items[1], "merchantName") = Str("n")
       /\ Get(reqs[s].items[1], "merchantId") = Num(9)
       /\ reqs[1].out = <<"inserted">>
       /\ Get(reqs[1].items[1], "merchantName") = Str("m")
       /\ Cardinality(table) = 1

\* a value is an integer id the client gave
IsInt(v) == v.t = "number"
\* the seconds the clock can have shown to a request so far
Seconds == {t \div MsPerSecond : t \in StartNow..now}
\* the id the specification gives to the row of bill x: its id if it has
\* one, else the integer of its bill number, else a time-derived one
BillIdBySpec(x) ==
    IF IsInt(Get(x, "id")) THEN {Get(x, "id").n}
    ELSE IF IsInt(ParseInt(Get(x, "billNumber")))
    THEN {ParseInt(Get(x, "billNumber")).n}
    ELSE Seconds
\* a syncOne of a bill has been answered with its row
BillAnswered(s) ==
    /\ kind = "bills" /\ reqs[s].pc = "done" /\ reqs[s].resp.status = 200
    /\ IsRecord(reqs[s].items[1])

\* C21: the row of a bill sync has the record's id when the record carries
\* an integer id, zero included; else the integer of its bill number when
\* it carries one; else the time-derived id.
C21_BillIdSource ==
    \A s \in DOMAIN reqs :
       BillAnswered(s) => reqs[s].resp.row.id \in BillIdBySpec(reqs[s].items[1])

\* the same for the ids and bill numbers that are not zero, which holds
C21_BillIdSourceNonZero ==
    \A s \in DOMAIN reqs :
       (/\ BillAnswered(s)
        /\ Get(reqs[s].items[1], "id") # Num(0)
        /\ ParseInt(Get(reqs[s].items[1], "billNumber")) # Num(0))
       => reqs[s].resp.row.id \in BillIdBySpec(reqs[s].items[1])

\* the id the specification gives to the row inserted for record x: the
\* client's integer id if it has one, else a time-derived one
InsertIdBySpec(x) ==
    IF IsInt(Get(x, "id")) THEN {Get(x, "id").n} ELSE Seconds
\* request s inserts the row of its current record
Inserting(s) ==
    /\ HasNaturalKey(kind) /\ Wrote(s) /\ reqs[s].found = {}
    /\ Last(reqs'[s].out) = "inserted"

\* C22: in syncOne and in syncBatch, of every kind with a natural key, the
\* row inserted for a record has the client's integer id when the record
\* carries one, and a time-derived id only when it carries none.
C22_InsertTakesClientId ==
    [][\A s \in DOMAIN reqs :
         Inserting(s) =>
            \E r \in table' \ table : r.id \in InsertIdBySpec(Item(s))]_vars

\* the same for the handlers that read the record's id, and the ids that
\* are not zero, which holds
C22_InsertTakesNonZeroId ==
    [][\A s \in DOMAIN reqs :
         (/\ Inserting(s)
          /\ ~(kind = "supply" /\ reqs[s].route = "one")
          /\ Get(Item(s), "id") # Num(0))
         => \E r \in table' \ table : r.id \in InsertIdBySpec(Item(s))]_vars

\* the UPDATE of request s has run on the row its lookup found
Updates(s) == Updating(s) /\ Last(reqs'[s].out) = "updated"

\* C23: for every kind, bills included, the update of a found row sets the
\* row's updated_at to the server time of the write.
C23_UpdateRefreshesUpdatedAt ==
    [][\A s \in DOMAIN reqs :
         Updates(s) =>
            /\ Target(table', s) # {}
            /\ \A r \in Target(table', s) :
                  "updated_at" \in DOMAIN r /\ r.updated_at = now]_vars

\* the same for the kinds other than bills, which holds; and the update of
\* a bill sets created_at to the time of the write
C23_UpdateRefreshesOrRecreates ==
    [][\A s \in DOMAIN reqs :
         Updates(s) =>
            /\ Target(table', s) # {}
            /\ \A r \in Target(table', s) :
                  IF kind = "bills"
                  THEN "updated_at" \notin DOMAIN r /\ r.created_at = now
                  ELSE r.updated_at = now]_vars

\* the default of the pricing column p
PricingDefault(p) == IF p = "metrics" THEN Str("unit") ELSE Num(0)
\* the value the specification stores in pricing column p for record x: the
\* default when x has no property p, the property otherwise
PricedBySpec(x, p) == Given(x, p, PricingDefault(p))
\* the same, reading a property that is null, 0 or "" as absent
PricedOrDefault(x, p) ==
    IF Given(x, p, Null) \in {Null, Num(0), Str("")}
    THEN PricingDefault(p)
    ELSE x.f[p]
\* the rows written by the product syncs answered so far: the record, how
\* it was written, and the row returned
ProductWrites ==
    {[x |-> reqs[s].items[1], how |-> reqs[s].out[1],
      row |-> IF reqs[s].route = "one" THEN reqs[s].resp.row
              ELSE reqs[s].resp.results[1]] :
        s \in {q \in DOMAIN reqs :
                 /\ reqs[q].pc = "done"
                 /\ reqs[q].out \in {<<"inserted">>, <<"updated">>}}}

\* C24: a product sync, single or batch, insert or update, stores in each of
\* mrp, wsp, sp, discount and gst the value 0 when the record gives no such
\* field (or gives null or 0) and the value given otherwise, and in metrics
\* "unit" when the record gives none (or gives null or "") and the value
\* given otherwise, each field independently of the others.
C24_PricingDefaults ==
    kind = "products" =>
       \A w \in ProductWrites : \A p \in PricingFields :
          w.row.cols[p] = PricedOrDefault(w.x, p)

\* the claim as stated: the default for an absent field, the supplied value
\* for every field that is present
C24_PricingAsSupplied ==
    kind = "products" =>
       \A w \in ProductWrites : \A p \in PricingFields :
          w.row.cols[p] = PricedBySpec(w.x, p)

\* a single and a batch sync have inserted and updated a row from records
\* that give some pricing fields and omit others
C24_Witness ==
    /\ kind = "products"
    /\ \E v, w \in ProductWrites :
          /\ v.how = "inserted" /\ w.how = "updated"
          /\ v.row.cols.mrp = Num(0) /\ v.row.cols.gst = Num(ProductPrice)
          /\ w.row.cols.mrp = Num(ProductPrice) /\ w.row.cols.gst = Num(0)
          /\ w.row.cols.metrics = Str("unit") /\ v.row.cols.metrics = Str("kg")
    /\ \E s, q \in DOMAIN reqs : reqs[s].route = "one" /\ reqs[q].route = "batch"

\* the kinds whose rows hold a name and nothing else
NameOnly(k) == k \in {"supply", "merchants"}

\* C25: a supply sync or a merchant sync that finds the row of its (name,
\* mid) changes that row's updated_at and nothing else: the row keeps its
\* id, mid, name and created_at, and every other row stays as it is.
C25_UpdateTouchesTimestamp ==
    [][\A s \in DOMAIN reqs :
         (NameOnly(kind) /\ Updates(s)) =>
            \E old \in Target(table, s) :
               /\ old.id \in reqs[s].found
               /\ table' = (table \ {old})
                              \cup {[old EXCEPT !.updated_at = now]}]_vars

\* a record with the client id 7 has updated, a second later, a row stored
\* under another id, and the row answered is the stored one
C25_Witness ==
    /\ NameOnly(kind)
    /\ \E s \in DOMAIN reqs :
          /\ reqs[s].pc = "done" /\ reqs[s].out = <<"updated">>
          /\ Get(reqs[s].items[1], "id") = Num(7)
          /\ reqs[s].resp.row \in table
          /\ reqs[s].resp.row.id # 7
          /\ reqs[s].resp.row.updated_at > reqs[s].resp.row.created_at

\* the records of request s whose statement has failed
FailedRecords(s) == {i \in 1..Len(reqs[s].out) : reqs[s].out[i] = "failed"}

\* C26: a storage error during the upsert of a record reaches the caller as
\* one failure that carries the key of the record, in syncOne as in
\* syncBatch, and the handler issues no statement for the record again.
C26_FailureCarriesKey ==
    \A s \in DOMAIN reqs :
       /\ Len(reqs[s].out) <= Len(reqs[s].items)
       /\ (reqs[s].pc = "done" /\ FailedRecords(s) # {}) =>
             IF reqs[s].route = "one"
             THEN /\ reqs[s].resp.status = 500
                  /\ "key" \in DOMAIN reqs[s].resp
                  /\ reqs[s].resp.key = ErrLabel(kind, reqs[s].items[1])
             ELSE /\ Len(reqs[s].resp.errors) = Cardinality(FailedRecords(s))
                  /\ \A i \in FailedRecords(s) :
                        \E j \in 1..Len(reqs[s].resp.errors) :
                           reqs[s].resp.errors[j] = ErrLabel(kind, reqs[s].items[i])

\* what holds: the statement that fails is reported once, as the 500 of a
\* syncOne or as one entry with the record's key properties in the errors of
\* a syncBatch, the handler leaves the record, and the table is as before
C26_FailureOnceNoRetry ==
    [][\A s \in DOMAIN reqs :
         (Wrote(s) /\ Last(reqs'[s].out) = "failed") =>
            /\ ReportedFailure(s)
            /\ Len(reqs'[s].out) = Len(reqs[s].out) + 1
            /\ reqs'[s].pc = "done" \/ reqs'[s].i = reqs[s].i + 1
            /\ table' = table]_vars

\* the body of a request with the JSON text it carries replaced by the
\* value the text denotes
StructuredBody(k, route, raw) ==
    IF k = "supply" /\ route = "one"
    THEN IF IsJsonText(Get(raw, "data")) THEN Get(raw, "data").json ELSE raw
    ELSE Unwrapped(raw)
\* the body of slot r carries its records as JSON text
SentEncoded(r) ==
    r.pc # "idle" /\ StructuredBody(kind, r.route, r.raw) # r.raw
\* the slot of the same request had its body been structured
Structured(r) == [r EXCEPT !.raw = StructuredBody(kind, r.route, r.raw)]
\* the slot in which the structured body arrives at time t
StructuredArrival(r, t) ==
    LET b == StructuredBody(kind, r.route, r.raw) IN
    BeginItem(kind,
              [IdleSlot EXCEPT !.route = r.route,
                               !.items = IF r.route = "batch" THEN ParseArray(b)
                                         ELSE <<RecordOf(kind, b)>>],
              1, t)
\* the step of request s is the step the request with the structured body
\* takes: same records on arrival, same lookup, same statement, same
\* table and same response
StepsAsStructured(s) ==
    CASE reqs[s].pc = "idle" ->
            Norm(reqs'[s]) = Norm(StructuredArrival(reqs'[s], now))
      [] reqs[s].pc = "select" ->
            LET t == Structured(reqs[s]) IN
            /\ table' = table
            /\ Norm(reqs'[s]) =
                  Norm([t EXCEPT !.pc = "write",
                                 !.found = {row.id : row \in
                                    DbSelect(kind, table, t.id, t.mid,
                                             KeyParams(kind, t.items[t.i]))}])
      [] OTHER ->
            LET t == Structured(reqs[s])
                res == Upsert(kind, table, t, now)
            IN /\ table' = res.table
               /\ Norm(reqs'[s]) = Norm(AfterWrite(kind, t, res, now))

\* C27: for the syncOne and the syncBatch of every kind, a request that
\* carries its record as JSON text goes through the states of the request
\* that carries the record structured: it decodes to the same records,
\* leaves the same table and sends the same response.
C27_EncodedAsStructured ==
    [][\A s \in DOMAIN reqs :
         (SentEncoded(reqs'[s]) /\ reqs'[s] # reqs[s]) => StepsAsStructured(s)
      ]_vars

\* the same for the handlers that decode req.body.data, which holds
C27_DecodingHandlersAgree ==
    [][\A s \in DOMAIN reqs :
         (/\ SentEncoded(reqs'[s]) /\ reqs'[s] # reqs[s]
          /\ ~(kind = "supply" /\ reqs'[s].route = "one"))
         => StepsAsStructured(s)
      ]_vars

\* C28: the first register sync of a hostname stores the edit password
\* "paybean", whatever editPassword its payload carries, and its response
\* returns the stored value with the stored row.
C28_FirstPasswordIsDefault ==
    [][\A s \in DOMAIN reqs :
         RegInserting(s) =>
            \E new \in table' \ table :
               /\ new.hostName = Get(reqs[s].items[1], "hostName").s
               /\ new.editPassword = "paybean"
               /\ reqs'[s].resp.editPassword = new.editPassword
               /\ reqs'[s].resp.isNew
               /\ reqs'[s].resp.data = new
      ]_vars

\* a registration whose payload carries the editPassword "secret" has been
\* created and answered with "paybean"
C28_Witness ==
    /\ kind = "register"
    /\ \E s \in DOMAIN reqs :
          /\ reqs[s].pc = "done" /\ reqs[s].out = <<"inserted">>
          /\ Get(reqs[s].items[1], "editPassword") = Str("secret")
          /\ reqs[s].resp.isNew
          /\ reqs[s].resp.editPassword = "paybean"
          /\ reqs[s].resp.data \in table

\* the default the register table declares for flag f
FlagDefault(f) ==
    Bool(f \in {"enableMrpPrice", "enableBillMenu", "enableInventoryMenu",
                "enableBomMenu", "enableReportsMenu", "enableRenewalMenu"})
\* the flags F of the row that request s writes are stored as the payload
\* gives them, and on an insert as their defaults when it gives none
FlagsStored(s, F) ==
    \A new \in table' :
       (new \notin table \/ new.id \in reqs[s].found) =>
          \A f \in F :
             IF Get(reqs[s].items[1], f) # Undef
             THEN new.cols[f] = Get(reqs[s].items[1], f)
             ELSE RegInserting(s) => new.cols[f] = FlagDefault(f)

\* C29: the first register sync of a hostname stores every flag that its
\* payload does not carry with the flag's default (registered false,
\* gstEnabled false, enableMrpPrice true, enableWspPrice false, enableSpPrice
\* false, the five menu flags true), and an insert and an update alike store
\* a flag the payload carries, an explicit false included, as given.
C29_FlagDefaultsOnInsert ==
    [][\A s \in DOMAIN reqs :
         (RegInserting(s) \/ RegUpdating(s)) => FlagsStored(s, RegFlags)
      ]_vars

\* the same for the flags other than registered, which holds
C29_FlagDefaultsButRegistered ==
    [][\A s \in DOMAIN reqs :
         (RegInserting(s) \/ RegUpdating(s)) =>
            FlagsStored(s, RegFlags \ {"registered"})
      ]_vars

\* the records of request s that have been written, each with its row
WrittenRecords(s) ==
    LET r == reqs[s] IN
    IF r.route = "one"
    THEN IF r.pc = "done" /\ r.out \in {<<"inserted">>, <<"updated">>}
         THEN {[x |-> r.items[1], row |-> r.resp.row]}
         ELSE {}
    ELSE {[x |-> r.items[i], row |-> r.results[ResultIndex(r, i)]] :
             i \in {j \in 1..Len(r.out) : r.out[j] \in {"inserted", "updated"}}}

\* C30: every sync handler of src/unnamed/part_000 stores a record that
\* carries the mid 0 under merchant 0, and stores a record under merchant 1
\* only when its mid is absent or null (or 1).
C30_Part000HonoursMidZero ==
    \A s \in DOMAIN reqs : \A w \in WrittenRecords(s) :
       /\ Get(w.x, "mid") = Num(0) => w.row.mid = 0
       /\ w.row.mid = 1 => Get(w.x, "mid") \in {Undef, Null, Num(1)}

\* what holds in src/unnamed/part_000: a mid other than 0 is stored as
\* given, and the record without mid under merchant 1
C30_Part000KeepsOtherMids ==
    \A s \in DOMAIN reqs : \A w \in WrittenRecords(s) :
       /\ Get(w.x, "mid") = Num(2) => w.row.mid = 2
       /\ Get(w.x, "mid") = Undef => w.row.mid = 1

\* rows r and r2 are the same row of their table, before and after a step
SameRow(r, r2) ==
    IF kind = "register" THEN r2.id = r.id
    ELSE r2.id = r.id /\ r2.mid = r.mid

\* C31: the created_at of a stored row is set when the row is inserted, and
\* no later sync of any kind changes it.
C31_CreatedAtSetOnce ==
    [][\A r \in table :
         \E r2 \in table' : SameRow(r, r2) /\ r2.created_at = r.created_at
      ]_vars

\* the same for every kind but bills, which holds
C31_CreatedAtKeptButBills ==
    [][kind # "bills" =>
         \A r \in table :
            \E r2 \in table' : SameRow(r, r2) /\ r2.created_at = r.created_at
      ]_vars

\* the other of the two operations of a kind
OtherRoute(route) == IF route = "one" THEN "batch" ELSE "one"
\* slot r is a syncOne of a record, or a syncBatch of one record
OneRecord(r) ==
    /\ r.route \in {"one", "batch"} /\ r.pc # "idle"
    /\ Len(r.items) = 1 /\ IsRecord(r.items[1])
\* the row persisted by the statement of slot r, none when it failed
Persisted(r) ==
    IF r.route = "one"
    THEN IF r.resp = RespError THEN <<>> ELSE <<r.resp.row>>
    ELSE r.results
\* the step of request s over one record is the step the other operation
\* of the kind takes for that record: the same id and mid on arrival, the
\* same rows found, the same table and the same row persisted
StepsAsOtherRoute(s) ==
    LET r == reqs[s]
        x == reqs'[s].items[1]
    IN CASE r.pc = "idle" ->
               /\ reqs'[s].id = ItemId(kind, OtherRoute(reqs'[s].route), x, now)
               /\ reqs'[s].mid = ItemMid(x)
         [] r.pc = "select" ->
               /\ table' = table
               /\ reqs'[s].found =
                     {row.id : row \in DbSelect(kind, table, r.id, r.mid,
                                                KeyParams(kind, x))}
         [] OTHER ->
               LET res == Upsert(kind, table,
                                 [r EXCEPT !.route = OtherRoute(r.route)], now)
               IN /\ table' = res.table
                  /\ Persisted(reqs'[s]) = IF res.ok THEN <<res.row>> ELSE <<>>

\* C32: for the kinds with both operations, a syncBatch of the one-record
\* batch [R] persists the row a syncOne of R persists, with the same id,
\* mid, natural key and payload, for every record R, those that carry a
\* client id included.
C32_BatchOfOneAsSyncOne ==
    [][\A s \in DOMAIN reqs :
         (kind \in BatchKinds /\ OneRecord(reqs'[s]) /\ reqs'[s] # reqs[s])
         => StepsAsOtherRoute(s)
      ]_vars

\* the same for the records that POST /sync/supply and POST /sync/supplies
\* give the same id, those without a client id, and for every record of the
\* other kinds, which holds
C32_BatchOfOneButSupplyId ==
    [][\A s \in DOMAIN reqs :
         (/\ kind \in BatchKinds /\ OneRecord(reqs'[s]) /\ reqs'[s] # reqs[s]
          /\ ~(kind = "supply" /\ Truthy(Get(reqs'[s].items[1], "id"))))
         => StepsAsOtherRoute(s)
      ]_vars

----------------------------------------------------------------------------
(* The concurrent requests of the general specification next to the list   *)
(* requests GET /sync/<collection>.  A slot of a list request has the      *)
(* route "get" and is answered in one step with the rows of the table.     *)

\* res.json(result.rows)
RespRows(rows) == [status |-> 200, rows |-> rows]

\* the request arrives, SELECT * runs and the answer is sent
ListRows(s) ==
    /\ reqs[s].pc = "idle"
    /\ \A q \in 1..(s - 1) : reqs[q].pc # "idle"
    /\ reqs' = [reqs EXCEPT ![s] =
                 [IdleSlot EXCEPT !.pc = "done", !.route = "get",
                                  !.resp = RespRows(List(table))]]
    /\ UNCHANGED <<kind, table, seq, now>>

NextList ==
    \/ \E s \in Slots : ReceiveOne(s)
    \/ \E s \in Slots : ReceiveBatch(s)
    \/ \E s \in Slots : Select(s)
    \/ \E s \in Slots : Write(s)
    \/ \E s \in Slots : ListRows(s)
    \/ Tick

SpecList == Init /\ [][NextList]_vars

\* the (id, mid, natural key) of the rows of a table
Triples(tbl) == {<<r.id, r.mid, r.key>> : r \in tbl}

\* C33: no sync and no list request deletes a row or changes the id, the
\* mid or the natural key of a stored row: along every interleaving of
\* requests the (id, mid, natural key) triples of the table only grow.
C33_TriplesOnlyGrow ==
    [][/\ Triples(table) \subseteq Triples(table')
       /\ Cardinality(table') >= Cardinality(table)
       /\ \A s \in DOMAIN reqs :
             (reqs'[s].route = "get" /\ reqs'[s] # reqs[s]) => table' = table
      ]_vars

\* a batch has inserted a row and updated it, and a list request has been
\* answered with the rows stored
C33_Witness ==
    /\ \E s \in DOMAIN reqs :
          /\ reqs[s].route = "batch" /\ reqs[s].pc = "done"
          /\ reqs[s].out = <<"inserted", "updated">>
    /\ \E s \in DOMAIN reqs :
          /\ reqs[s].route = "get" /\ reqs[s].pc = "done"
          /\ reqs[s].resp.rows = table /\ table # {}
          /\ \E r \in table : HasUpdatedAt(kind) => r.updated_at > r.created_at

\* the row that request s has got from its last successful statement
Returned(r) ==
    IF r.route = "batch" THEN Last(r.results)
    ELSE IF kind = "register" THEN r.resp.data ELSE r.resp.row

\* C34: when a handler takes the update branch because its lookup found a
\* row, its UPDATE matches exactly one row and returns it, in every
\* interleaving with other requests: the answer of a successful update
\* carries a row that is stored, and no other row is touched.
C34_UpdateReturnsStoredRow ==
    [][\A s \in DOMAIN reqs :
         ((Updating(s) \/ RegUpdating(s))
          /\ Last(reqs'[s].out) = "updated") =>
            /\ Returned(reqs'[s]) # Undef
            /\ Returned(reqs'[s]) \in table'
            /\ \E old \in table :
                  /\ SameRow(old, Returned(reqs'[s]))
                  /\ table' = (table \ {old}) \cup {Returned(reqs'[s])}
      ]_vars

\* a batch has inserted a row and updated it, and a syncOne next to it has
\* updated the same row and is answered with it
C34_Witness ==
    \E s, q \in DOMAIN reqs :
       /\ s # q
       /\ reqs[s].pc = "done" /\ reqs[s].out = <<"inserted", "updated">>
       /\ reqs[q].pc = "done" /\ reqs[q].out = <<"updated">>
       /\ reqs[q].route = "one" /\ reqs[q].resp.status = 200
       /\ reqs[q].resp.row.id \in {r.id : r \in table}
       /\ Cardinality(table) = 1

----------------------------------------------------------------------------
(* A stored row and requests that race to update it: the first request     *)
(* stores the row and is answered, then the others arrive, all of them     *)
(* before the query of any of them runs.                                   *)

RaceRecords(k) == {Record(k, Num(7), Undef, Str("a"), d) : d \in {RowsX, RowsY}}

InitRace ==
    /\ kind \in Kinds
    /\ table = {}
    /\ seq = [id |-> 1, merchantId |-> 1]
    /\ now = StartNow
    /\ reqs = [s \in 1..(1 + Racers) |-> IdleSlot]

RaceFirst == Receive(1, "one", Record(kind, Num(7), Undef, Str("a"), RowsX))

RaceOne(s) ==
    /\ s > 1 /\ reqs[1].pc = "done"
    /\ \E x \in RaceRecords(kind) : Receive(s, "one", x)

RaceBatch(s) ==
    /\ s > 1 /\ reqs[1].pc = "done"
    /\ \E x \in RaceRecords(kind) : Receive(s, "batch", Arr(<<x>>))

\* every racing request has arrived
AllArrived == \A q \in DOMAIN reqs : reqs[q].pc # "idle"

RaceSelect(s) == (s > 1 => AllArrived) /\ Select(s)
RaceWrite(s) == (s > 1 => AllArrived) /\ Write(s)

NextRace ==
    \/ RaceFirst
    \/ \E s \in DOMAIN reqs : RaceOne(s)
    \/ \E s \in DOMAIN reqs : RaceBatch(s)
    \/ \E s \in DOMAIN reqs : RaceSelect(s)
    \/ \E s \in DOMAIN reqs : RaceWrite(s)
    \/ Tick

SpecRace == InitRace /\ [][NextRace]_vars

\* every request has been answered
AllDone(rq) == \A q \in DOMAIN rq : rq[q].pc = "done"

\* C35: when concurrent requests sync different payloads for a stored
\* (natural key, mid), all of them succeed, the table holds one row for the
\* key, and after each UPDATE the row's payload is that of the request
\* whose UPDATE it was, whole: the payload of the last UPDATE stays.
C35_LastWriteWins ==
    [][/\ \A s \in DOMAIN reqs :
            (s > 1 /\ Wrote(s)) =>
               /\ Updates(s)
               /\ Cardinality(table') = 1
               /\ \A r \in table' :
                     /\ \E old \in table : SameRow(old, r) /\ r.key = old.key
                     /\ HasPayload(kind) =>
                           r.cols = IncomingPayload(kind, Item(s))
       /\ AllDone(reqs') =>
            /\ \A q \in DOMAIN reqs : Failures(reqs'[q]) = {}
            /\ \A q \in DOMAIN reqs : reqs'[q].resp.status = 200
            /\ Cardinality(table') = 1
      ]_vars

\* two requests with different payloads were in flight together, both have
\* updated the stored row, and the row holds the payload of one of them
C35_Witness ==
    /\ HasPayload(kind) /\ AllDone(reqs)
    /\ reqs[2].out = <<"updated">> /\ reqs[3].out = <<"updated">>
    /\ reqs[2].items[1] # reqs[3].items[1]
    /\ \E r \in table : r.cols = IncomingPayload(kind, reqs[2].items[1])
    /\ \A r \in table : r.cols # IncomingPayload(kind, reqs[3].items[1])

\* the register syncs answered with success and isNew = true
AnsweredNew(rq) ==
    {s \in DOMAIN rq : /\ rq[s].pc = "done" /\ rq[s].route = "one"
                       /\ rq[s].resp.status = 200 /\ rq[s].resp.isNew}

\* C36: the response of a register sync has isNew = true exactly when the
\* request inserted a row and isNew = false exactly when it updated one,
\* and along every interleaving of register syncs at most one successful
\* response per hostname has isNew = true.
C36_IsNewOncePerHostname ==
    [][kind = "register" =>
         /\ \A s \in DOMAIN reqs :
               /\ RegInserting(s) =>
                     /\ reqs'[s].resp.isNew
                     /\ Cardinality(table') = Cardinality(table) + 1
               /\ RegUpdating(s) =>
                     /\ ~reqs'[s].resp.isNew
                     /\ Cardinality(table') = Cardinality(table)
               /\ (Wrote(s) /\ reqs'[s].resp.status = 200) =>
                     (RegInserting(s) \/ RegUpdating(s))
         /\ \A s, q \in AnsweredNew(reqs') :
               s # q => Get(reqs'[s].items[1], "hostName")
                           # Get(reqs'[q].items[1], "hostName")
      ]_vars

\* two first syncs of one hostname have both found no row: one has inserted
\* and is answered isNew = true, the other's INSERT has failed
C36_Witness ==
    /\ kind = "register"
    /\ \E s, q \in DOMAIN reqs :
          /\ reqs[s].pc = "done" /\ reqs[s].out = <<"inserted">>
          /\ reqs[s].resp.isNew
          /\ reqs[q].pc = "done" /\ reqs[q].out = <<"failed">>
          /\ reqs[q].found = {}
          /\ IsSqlText(Get(reqs[q].items[1], "registeredDate"))
          /\ Get(reqs[q].items[1], "hostName") = Get(reqs[s].items[1], "hostName")

----------------------------------------------------------------------------
(* Bill syncs one after the other, of bills with and without an id and a   *)
(* bill number.                                                            *)

BillRecords ==
    {Compact([id |-> id, billNumber |-> n, items |-> d]) :
        id \in {Undef, Num(1)}, n \in {Undef, Str("1"), Str("2")},
        d \in {RowsX, RowsY}}

InitBills ==
    /\ kind = "bills"
    /\ table = {}
    /\ seq = [id |-> 1, merchantId |-> 1]
    /\ now = StartNow
    /\ reqs = [s \in 1..MaxCalls |-> IdleSlot]

BillOne(s) ==
    /\ Answered(s)
    /\ \E x \in BillRecords : \E b \in OneBodies("bills", x) : Receive(s, "one", b)

NextBills ==
    \/ \E s \in DOMAIN reqs : BillOne(s)
    \/ \E s \in DOMAIN reqs : Select(s)
    \/ \E s \in DOMAIN reqs : Write(s)
    \/ Tick

SpecBills == InitBills /\ [][NextBills]_vars

\* records x and y identify the same bill: the same mid, and the same
\* explicit id or the same bill number
SameBill(x, y) ==
    /\ ExpectedMid(x) = ExpectedMid(y)
    /\ \/ Get(x, "id") # Undef /\ Get(x, "id") = Get(y, "id")
       \/ Get(x, "billNumber") # Undef
             /\ Get(x, "billNumber") = Get(y, "billNumber")

\* C37: a bill sync overwrites the data of a stored bill only when the
\* incoming record identifies the bill that was stored: the same mid, and
\* the same explicit id or the same bill number.
C37_OverwritesSameBillOnly ==
    [][\A s \in DOMAIN reqs :
         (kind = "bills" /\ Updates(s)) =>
            \A old \in table :
               old \notin table' => SameBill(old.cols.data, Item(s))
      ]_vars

\* what holds: a bill sync overwrites the one row of the id and mid it has
\* computed for its record, and when both records carry an id, the row of
\* the same bill
C37_OverwritesComputedId ==
    [][\A s \in DOMAIN reqs :
         (kind = "bills" /\ Updates(s)) =>
            \A old \in table :
               old \notin table' =>
                  /\ old.id = reqs[s].id.n /\ old.mid = reqs[s].mid.n
                  /\ (Truthy(Get(old.cols.data, "id"))
                      /\ Truthy(Get(Item(s), "id")))
                     => SameBill(old.cols.data, Item(s))
      ]_vars

====
